---------------------------- MODULE Spec2Model ----------------------------
(***************************************************************************)
(* FreqRadio: the calculators of the RF/antenna formula engine, modelled   *)
(* as handlers over the page's state (error markers on input fields and    *)
(* the content of the result panes), and the page around them: startup,    *)
(* tabs and theme, the debounced input listeners and the chart.            *)
(*                                                                         *)
(* JavaScript numbers are modelled as decimal floating-point values with a *)
(* rational mantissa, extended with NaN, +Infinity and -Infinity.  Binary  *)
(* rounding and the sign of zero are not modelled.  Math.sqrt and          *)
(* Math.log10 are exact where the result is rational and approximated to a *)
(* few significant digits elsewhere.                                       *)
(***************************************************************************)
EXTENDS Integers, Sequences, FiniteSets, TLC

VARIABLES
    errors,   \* ids of the input fields that carry an error marker
    panes,    \* result pane id -> its content (innerHTML)
    last,     \* the handler invocation that produced this state
    localStorage,  \* key -> stored string
    page,     \* tabs, theme, the app object, installed listeners, the URL
    timers,   \* the clock and the timeouts of the debounced listeners
    charts    \* the Chart instances and currentChart

vars == <<errors, panes, last, localStorage, page, timers, charts>>

\* the state no calculator touches
ui == <<localStorage, page, timers, charts>>

----------------------------------------------------------------------------
(* JavaScript Number arithmetic                                            *)
(*                                                                         *)
(* A finite number is n/d * 10^e with n/d in lowest terms, n not a         *)
(* multiple of ten and d prime to ten, so equal numbers are equal records  *)
(* and a decimal fraction has d = 1.  n and d are machine integers: a sum  *)
(* or product that does not fit is computed                                *)
(* from operands rounded to fewer significant digits, the way floating     *)
(* point rounds to its mantissa, and a quotient whose decimal expansion    *)
(* does not end is cut to nine significant digits.                         *)

Abs(x) == IF x < 0 THEN -x ELSE x

RECURSIVE GCD(_, _)
GCD(a, b) == IF b = 0 THEN a ELSE GCD(b, a % b)

MaxInt == (2 ^ 30 - 1) * 2 + 1

Fits(a, b) == a = 0 \/ b = 0 \/ Abs(a) <= MaxInt \div Abs(b)

\* n, d > 0 with the factors of ten moved from n into the exponent and the
\* factors 2 and 5 of d turned into factors of ten
RECURSIVE Canon10(_, _, _)
Canon10(n, d, e) ==
    IF n % 10 = 0 THEN Canon10(n \div 10, d, e + 1)
    ELSE IF d % 10 = 0 THEN Canon10(n, d \div 10, e - 1)
    ELSE IF d % 2 = 0 /\ Fits(n, 5) THEN Canon10(n * 5, d \div 2, e - 1)
    ELSE IF d % 5 = 0 /\ Fits(n, 2) THEN Canon10(n * 2, d \div 5, e - 1)
    ELSE [n |-> n, d |-> d, e |-> e, t |-> "fin"]

\* the number n/d * 10^e, d # 0
Canon(n, d, e) ==
    IF n = 0 THEN [n |-> 0, d |-> 1, e |-> 0, t |-> "fin"]
    ELSE LET g == GCD(Abs(n), Abs(d))
             c == Canon10(Abs(n) \div g, Abs(d) \div g, e)
         IN  IF (n < 0) = (d < 0) THEN c ELSE [c EXCEPT !.n = -c.n]

R(n, d) == Canon(n, d, 0)

Z(n) == Canon(n, 1, 0)

NaN == [n |-> 0, d |-> 1, e |-> 0, t |-> "nan"]

Infinity == [n |-> 1, d |-> 1, e |-> 0, t |-> "inf"]

NegInfinity == [n |-> -1, d |-> 1, e |-> 0, t |-> "inf"]

InfOf(s) == IF s < 0 THEN NegInfinity ELSE Infinity

isNaN(x) == x.t = "nan"

isFinite(x) == x.t = "fin"

Sgn(x) == IF x.n > 0 THEN 1 ELSE IF x.n < 0 THEN -1 ELSE 0

Neg(x) == IF isNaN(x) THEN NaN ELSE [x EXCEPT !.n = -x.n]

MathAbs(x) == IF isNaN(x) THEN NaN ELSE [x EXCEPT !.n = Abs(x.n)]

\* floor(log10(n/d)) for positive n, d
RECURSIVE Exp10(_, _)
Exp10(n, d) ==
    IF n < d THEN (IF Fits(n, 10) THEN Exp10(n * 10, d) ELSE Exp10(n, d \div 10)) - 1
    ELSE IF n \div d >= 10
         THEN (IF Fits(d, 10) THEN Exp10(n, d * 10) ELSE Exp10(n \div 10, d)) + 1
    ELSE 0

\* floor(log10(|x|)) of a finite x # 0
Magnitude(x) == Exp10(Abs(x.n), x.d) + x.e

\* floor((q + r/d) * 10^j) by long division, r < d
RECURSIVE LongDiv(_, _, _, _)
LongDiv(q, r, d, j) ==
    IF j = 0 THEN q
    ELSE IF Fits(r, 10)
         THEN LongDiv(q * 10 + (r * 10) \div d, (r * 10) % d, d, j - 1)
         ELSE LongDiv(q, r \div 10, d \div 10, j)

\* x # 0 with |x.n| = a, cut to j decimal places of its mantissa
RoundTo(x, a, j) ==
    Canon(Sgn(x) * (IF j >= 0 THEN LongDiv(a \div x.d, a % x.d, x.d, j)
                    ELSE (a \div x.d) \div (10 ^ (-j))), 1, x.e - j)

\* finite x rounded toward zero to k significant decimal digits, k in 1 .. 9
RoundSig(x, k) ==
    IF x.n = 0 THEN x ELSE RoundTo(x, Abs(x.n), k - 1 - Exp10(Abs(x.n), x.d))

\* the sum of finite x and y; an operand too small to register next to the
\* other is absorbed
RECURSIVE AddP(_, _, _)
AddP(x, y, k) ==
    LET e0 == IF x.e < y.e THEN x.e ELSE y.e
        sx == x.e - e0
        sy == y.e - e0
        okx == sx <= 9 /\ Fits(x.n, 10 ^ (IF sx <= 9 THEN sx ELSE 0))
        oky == sy <= 9 /\ Fits(y.n, 10 ^ (IF sy <= 9 THEN sy ELSE 0))
        nx == x.n * 10 ^ sx
        ny == y.n * 10 ^ sy
        g == GCD(x.d, y.d)
        p == y.d \div g
        q == x.d \div g
    IN  IF x.n = 0 THEN y
        ELSE IF y.n = 0 THEN x
        ELSE IF Magnitude(x) > Magnitude(y) + 9 THEN x
        ELSE IF Magnitude(y) > Magnitude(x) + 9 THEN y
        ELSE IF /\ okx /\ oky /\ Fits(nx, p) /\ Fits(ny, q) /\ Fits(q, y.d)
                /\ Abs(nx * p) <= MaxInt - Abs(ny * q)
        THEN Canon(nx * p + ny * q, q * y.d, e0)
        ELSE IF k = 0 THEN (IF Magnitude(x) < Magnitude(y) THEN y ELSE x)
        ELSE AddP(RoundSig(x, k), RoundSig(y, k), k - 1)

Add(x, y) ==
    IF isNaN(x) \/ isNaN(y) THEN NaN
    ELSE IF x.t = "inf" /\ y.t = "inf" THEN (IF x.n = y.n THEN x ELSE NaN)
    ELSE IF x.t = "inf" THEN x
    ELSE IF y.t = "inf" THEN y
    ELSE AddP(x, y, 8)

Sub(x, y) == Add(x, Neg(y))

\* x < y, false when either is NaN
Lt(x, y) ==
    IF isNaN(x) \/ isNaN(y) THEN FALSE
    ELSE IF x.t = "inf" THEN x.n < 0 /\ ~(y.t = "inf" /\ y.n < 0)
    ELSE IF y.t = "inf" THEN y.n > 0
    ELSE Sgn(AddP(x, Neg(y), 8)) < 0

Eq(x, y) == ~isNaN(x) /\ ~isNaN(y) /\ x = y

Le(x, y) == Lt(x, y) \/ Eq(x, y)

Gt(x, y) == Lt(y, x)

Ge(x, y) == Le(y, x)

\* the product of finite x and y
RECURSIVE MulP(_, _, _)
\* the operands do not multiply exactly: round the longer one (rx, ry are
\* x and y at k digits), or go on with one digit fewer
MulRounded(x, y, rx, ry, k) ==
    IF Abs(x.n) + x.d >= Abs(y.n) + y.d /\ rx # x THEN MulP(rx, y, k)
    ELSE IF ry # y THEN MulP(x, ry, k)
    ELSE MulP(x, y, k - 1)

MulExact(x, y, g1, g2) ==
    Canon((x.n \div g1) * (y.n \div g2), (x.d \div g2) * (y.d \div g1), x.e + y.e)

MulFits(x, y, g1, g2) ==
    Fits(x.n \div g1, y.n \div g2) /\ Fits(x.d \div g2, y.d \div g1)

\* t without its last k digits
DropDigits(t, k) == IF k > 9 THEN 0 ELSE t \div (10 ^ k)

\* one step of a long multiplication: acc.mant * 10^acc.shift is the product
\* with the digits of the multiplier taken so far, t the multiplicand times
\* its next digit; digits that no longer fit the mantissa are dropped
MulStep(acc, t) ==
    IF acc.mant <= 124000000
    THEN [mant |-> acc.mant * 10 + DropDigits(t, acc.shift), shift |-> acc.shift]
    ELSE IF acc.mant < 1000000000
    THEN [mant |-> acc.mant + DropDigits(t, acc.shift + 1), shift |-> acc.shift + 1]
    ELSE [mant |-> acc.mant \div 10 + DropDigits(t, acc.shift + 2),
          shift |-> acc.shift + 2]

\* a * m for naturals a < 10^8 and m, from the first digit of m to the last
RECURSIVE MulByDigits(_, _)
MulByDigits(a, m) ==
    IF m < 10 THEN [mant |-> a * m, shift |-> 0]
    ELSE MulStep(MulByDigits(a, m \div 10), a * (m % 10))

MulFinish(acc, sign, e) == Canon(sign * acc.mant, 1, acc.shift + e)

\* the product of two decimals whose mantissas do not multiply in a machine
\* integer: the longer one, at eight digits, times the digits of the other
MulLong(long, short) ==
    MulFinish(MulByDigits(Abs(long.n), Abs(short.n)), Sgn(long) * Sgn(short),
              long.e + short.e)

MulP(x, y, k) ==
    IF MulFits(x, y, GCD(Abs(x.n), y.d), GCD(Abs(y.n), x.d))
    THEN MulExact(x, y, GCD(Abs(x.n), y.d), GCD(Abs(y.n), x.d))
    ELSE IF x.d = 1 /\ y.d = 1
         THEN MulLong(RoundSig(IF Abs(x.n) >= Abs(y.n) THEN x ELSE y, 8),
                      IF Abs(x.n) >= Abs(y.n) THEN y ELSE x)
    ELSE MulRounded(x, y, RoundSig(x, k), RoundSig(y, k), k)

Mul(x, y) ==
    IF isNaN(x) \/ isNaN(y) THEN NaN
    ELSE IF x.t = "inf" \/ y.t = "inf"
         THEN (IF Sgn(x) = 0 \/ Sgn(y) = 0 THEN NaN ELSE InfOf(Sgn(x) * Sgn(y)))
    ELSE MulP(x, y, 8)

\* 1 / y: division by zero gives Infinity
Inv(y) ==
    IF isNaN(y) THEN NaN
    ELSE IF y.t = "inf" THEN Z(0)
    ELSE IF y.n = 0 THEN Infinity
    ELSE Canon(y.d, y.n, -y.e)

\* the denominators of the fractions with a finite decimal expansion
Terminating == {2 ^ k : k \in 0 .. 30} \cup {5 ^ k : k \in 0 .. 13}

\* a quotient as the mantissa holds it: a fraction whose expansion does not
\* end is cut to nine significant digits
Fl(x) == IF isFinite(x) /\ x.d \notin Terminating THEN RoundSig(x, 9) ELSE x

\* x / y with the IEEE results 0/0 = NaN, x/0 = +-Infinity, x/Infinity = 0
Div(x, y) ==
    IF isNaN(x) \/ isNaN(y) THEN NaN
    ELSE IF isFinite(y) /\ y.n = 0
         THEN (IF Sgn(x) = 0 THEN NaN ELSE InfOf(Sgn(x)))
    ELSE IF x.t = "inf" /\ y.t = "inf" THEN NaN
    ELSE Fl(Mul(x, Inv(y)))

MathMax(x, y) == IF isNaN(x) \/ isNaN(y) THEN NaN ELSE IF Lt(x, y) THEN y ELSE x

MathMin(x, y) == IF isNaN(x) \/ isNaN(y) THEN NaN ELSE IF Lt(y, x) THEN y ELSE x

\* JavaScript truthiness of a number: NaN and 0 are falsy
Truthy(x) == ~isNaN(x) /\ ~(isFinite(x) /\ x.n = 0)

\* the idiom  parseFloat(...) || dflt
OrDefault(x, dflt) == IF Truthy(x) THEN x ELSE dflt

\* the integer floor(x) of a finite x with |x| < 10^9
Floor(x) ==
    LET a == Abs(x.n)
        num == IF x.e >= 0 THEN a * 10 ^ x.e ELSE a
        den == IF x.e >= 0 THEN x.d ELSE x.d * 10 ^ (-x.e)
    IN  IF x.e < -9 THEN (IF x.n >= 0 THEN 0 ELSE -1)
        ELSE IF x.n >= 0 THEN num \div den
        ELSE IF (num % den) = 0 THEN -(num \div den)
        ELSE -(num \div den) - 1

\* floor of the square root of the natural number k
RECURSIVE ISqrtIn(_, _, _)
ISqrtIn(k, lo, hi) ==
    IF lo >= hi THEN lo
    ELSE LET mid == (lo + hi + 1) \div 2
         IN  IF mid * mid <= k THEN ISqrtIn(k, mid, hi) ELSE ISqrtIn(k, lo, mid - 1)

ISqrt(k) == ISqrtIn(k, 0, IF k < 46340 THEN k ELSE 46340)

IsSquare(k) == ISqrt(k) * ISqrt(k) = k

\* q * 10^f with q < 10^9 brought to q >= 10^7 and f even
RECURSIVE SqrtScale(_, _)
SqrtScale(q, f) ==
    IF f % 2 # 0 THEN SqrtScale(q * 10, f - 1)
    ELSE IF q < 10000000 THEN SqrtScale(q * 100, f - 2)
    ELSE [q |-> q, f |-> f]

\* Math.sqrt: exact on squares of rationals, otherwise rounded down to four
\* or five significant digits; NaN below zero
MathSqrt(x) ==
    IF isNaN(x) \/ Sgn(x) < 0 THEN NaN
    ELSE IF x.t = "inf" THEN Infinity
    ELSE IF x.e % 2 = 0 /\ IsSquare(x.n) /\ IsSquare(x.d)
         THEN Canon(ISqrt(x.n), ISqrt(x.d), x.e \div 2)
    ELSE LET r == RoundSig(x, 7)
             m == SqrtScale(r.n, r.e)
         IN  Canon(ISqrt(m.q), 1, m.f \div 2)

Pow10Int(k) == Canon(1, 1, k)

\* Math.log10: -Infinity at 0, NaN below 0, exact on the powers of ten and
\* interpolated linearly between two neighbouring powers of ten
MathLog10(x) ==
    IF isNaN(x) \/ Sgn(x) < 0 THEN NaN
    ELSE IF x.t = "inf" THEN Infinity
    ELSE IF x.n = 0 THEN NegInfinity
    ELSE LET k == Magnitude(x)
             m == [x EXCEPT !.e = x.e - k]
         IN  Add(Z(k), Div(Sub(m, Z(1)), Z(9)))

\* Math.pow(10, y): the inverse of MathLog10
MathPow10(y) ==
    IF isNaN(y) THEN NaN
    ELSE IF y.t = "inf" THEN (IF y.n > 0 THEN Infinity ELSE Z(0))
    ELSE LET k == Floor(y)
             frac == Sub(y, Z(k))
         IN  Mul(Pow10Int(k), Add(Z(1), Mul(Z(9), frac)))

----------------------------------------------------------------------------
(* Values that are not numbers, and thrown errors                          *)

Undefined == [n |-> 0, d |-> 1, e |-> 0, t |-> "undefined"]

Str(s) == [n |-> 0, d |-> 1, e |-> 0, t |-> "str", s |-> s]

\* ToNumber: undefined and a non-numeric string become NaN
ToNumber(v) == IF v.t \in {"fin", "inf"} THEN v ELSE NaN

\* !v for a looked-up factor: undefined, 0 and NaN are falsy, a non-empty
\* string is truthy
Falsy(v) == v.t = "undefined" \/ v.t = "nan" \/ (v.t = "fin" /\ v.n = 0)

Return(v) == [threw |-> FALSE, value |-> v]

Throw(msg) == [threw |-> TRUE, message |-> msg]

\* the function f as a table of its values, each computed once
Tabulate(f) == f @@ <<>>

\* property lookup obj[key]: undefined for a key the object does not have
Lookup(table, key) == IF key \in DOMAIN table THEN table[key] ELSE Undefined

----------------------------------------------------------------------------
(* Physical constants, unit tables and factors                             *)

SPEED_OF_LIGHT == 299792458

FREQ_UNITS ==
    [u \in {"Hz", "kHz", "MHz", "GHz"} |->
        CASE u = "Hz" -> Z(1) [] u = "kHz" -> Canon(1, 1, 3)
          [] u = "MHz" -> Canon(1, 1, 6) [] u = "GHz" -> Canon(1, 1, 9)]

LENGTH_UNITS ==
    [u \in {"m", "cm", "mm", "ft", "inches", "km", "miles"} |->
        CASE u = "m" -> Z(1) [] u = "cm" -> R(1, 100) [] u = "mm" -> R(1, 1000)
          [] u = "ft" -> R(3048, 10000) [] u = "inches" -> R(254, 10000)
          [] u = "km" -> Z(1000) [] u = "miles" -> R(160934, 100)]

INDUCTANCE_UNITS ==
    [u \in {"H", "mH", "uH", "nH"} |->
        CASE u = "H" -> Z(1) [] u = "mH" -> Canon(1, 1, -3)
          [] u = "uH" -> Canon(1, 1, -6) [] u = "nH" -> Canon(1, 1, -9)]

CAPACITANCE_UNITS ==
    [u \in {"F", "mF", "uF", "nF", "pF"} |->
        CASE u = "F" -> Z(1) [] u = "mF" -> Canon(1, 1, -3)
          [] u = "uF" -> Canon(1, 1, -6) [] u = "nF" -> Canon(1, 1, -9)
          [] u = "pF" -> Canon(1, 1, -12)]

RESISTANCE_UNITS ==
    [u \in {"ohm", "kohm", "mohm"} |->
        CASE u = "ohm" -> Z(1) [] u = "kohm" -> Canon(1, 1, 3)
          [] u = "mohm" -> Canon(1, 1, 6)]

POWER_UNITS ==
    [u \in {"W", "mW", "kW", "dBm", "dBW"} |->
        CASE u = "W" -> Z(1) [] u = "mW" -> R(1, 1000) [] u = "kW" -> Z(1000)
          [] u = "dBm" -> Str("logarithmic") [] u = "dBW" -> Str("logarithmic")]

DIPOLE_FACTOR == R(95, 100)

MONOPOLE_FACTOR == R(95, 100)

VELOCITY_FACTOR == R(95, 100)

SUBSTRATE_ER == R(44, 10)

SUBSTRATE_THICKNESS == R(16, 10)

DIPOLE_RESISTANCE == Z(73)

MONOPOLE_RESISTANCE == R(365, 10)

DBM_TO_WATTS(dbm) == MathPow10(Div(Sub(dbm, Z(30)), Z(10)))

WATTS_TO_DBM(watts) == Mul(Z(10), MathLog10(Mul(watts, Z(1000))))

DBW_TO_WATTS(dbw) == MathPow10(Div(dbw, Z(10)))

WATTS_TO_DBW(watts) == Mul(Z(10), MathLog10(watts))

----------------------------------------------------------------------------
(* Utility functions                                                       *)

\* validateInput(value, min = -Infinity, max = Infinity)
validateInput(value, min, max) ==
    /\ ~isNaN(value)
    /\ isFinite(value)
    /\ Ge(value, min)
    /\ Le(value, max)
    /\ Gt(value, Z(0))

validateInput1(value) == validateInput(value, NegInfinity, Infinity)

Invalid == Str("Invalid")

\* floor(n / d * 10^E) for n >= 0 and E < 0
RECURSIVE FloorQ(_, _, _)
FloorQ(n, d, E) ==
    IF n = 0 THEN 0
    ELSE IF -E <= 9 /\ Fits(d, 10 ^ (IF -E <= 9 THEN -E ELSE 0))
         THEN n \div (d * 10 ^ (-E))
    ELSE FloorQ(n \div 10, d, E + 1)

\* value.toFixed(precision) read back as a number: rounded to `precision`
\* decimals, halves away from zero; a value of nine or more digits before
\* the decimal point is left as it is
ToFixed(value, precision) ==
    IF value.n = 0 THEN value
    ELSE IF Magnitude(value) + precision >= 8 THEN value
    ELSE LET a == Abs(value.n)
             E == value.e + precision + 1
             tenths == IF E >= 0 THEN LongDiv(a \div value.d, a % value.d, value.d, E)
                       ELSE FloorQ(a, value.d, E)
         IN  Canon(Sgn(value) * ((tenths + 5) \div 10), 1, -precision)

\* formatNumber(value, precision) with scientific = false
formatNumber(value, precision) ==
    IF isNaN(value) \/ ~isFinite(value) THEN Invalid
    ELSE ToFixed(value, precision)

\* convertUnits that forgets to divide by the factor of the target unit
convertUnitsToBase(value, fromUnit, toUnit, unitMap) ==
    IF fromUnit = toUnit THEN Return(value)
    ELSE LET fromFactor == Lookup(unitMap, fromUnit)
             toFactor == Lookup(unitMap, toUnit)
         IN  IF Falsy(fromFactor) \/ Falsy(toFactor)
             THEN Throw("Unknown unit")
             ELSE Return(Mul(value, ToNumber(fromFactor)))

\* convertUnits(value, fromUnit, toUnit, unitMap)
convertUnits(value, fromUnit, toUnit, unitMap) ==
    IF fromUnit = toUnit THEN Return(value)
    ELSE LET fromFactor == Lookup(unitMap, fromUnit)
             toFactor == Lookup(unitMap, toUnit)
         IN  IF Falsy(fromFactor) \/ Falsy(toFactor)
             THEN Throw("Unknown unit")
             ELSE Return(Div(Mul(value, ToNumber(fromFactor)), ToNumber(toFactor)))

\* the first switch of convertPower: the value in watts
convertPowerToWatts(value, fromUnit) ==
    CASE fromUnit = "W" -> value
      [] fromUnit = "mW" -> Div(value, Z(1000))
      [] fromUnit = "kW" -> Mul(value, Z(1000))
      [] fromUnit = "dBm" -> DBM_TO_WATTS(value)
      [] fromUnit = "dBW" -> DBW_TO_WATTS(value)

\* the second switch of convertPower
convertPowerFromWatts(watts, toUnit) ==
    CASE toUnit = "W" -> Return(watts)
      [] toUnit = "mW" -> Return(Mul(watts, Z(1000)))
      [] toUnit = "kW" -> Return(Div(watts, Z(1000)))
      [] toUnit = "dBm" -> Return(WATTS_TO_DBM(watts))
      [] toUnit = "dBW" -> Return(WATTS_TO_DBW(watts))
      [] OTHER -> Throw("Unknown power unit")

\* convertPower(value, fromUnit, toUnit) of the utilities
convertPowerUtil(value, fromUnit, toUnit) ==
    IF fromUnit = toUnit THEN Return(value)
    ELSE IF fromUnit \notin {"W", "mW", "kW", "dBm", "dBW"}
         THEN Throw("Unknown power unit")
    ELSE convertPowerFromWatts(convertPowerToWatts(value, fromUnit), toUnit)

gammaToVSWR(gamma) ==
    IF Ge(gamma, Z(1)) THEN Infinity
    ELSE Div(Add(Z(1), gamma), Sub(Z(1), gamma))

\* vswrToGamma without its branch for an infinite VSWR
vswrToGammaFiniteOnly(vswr) ==
    IF Lt(vswr, Z(1)) THEN Z(0)
    ELSE Div(Sub(vswr, Z(1)), Add(vswr, Z(1)))

vswrToGamma(vswr) ==
    IF Lt(vswr, Z(1)) THEN Z(0)
    ELSE IF ~isFinite(vswr) THEN Z(1)
    ELSE Div(Sub(vswr, Z(1)), Add(vswr, Z(1)))

\* gammaToReturnLoss with 0 dB for a perfect match
gammaToReturnLossZeroAtMatch(gamma) ==
    IF Eq(gamma, Z(0)) THEN Z(0)
    ELSE Mul(Z(-20), MathLog10(gamma))

gammaToReturnLoss(gamma) ==
    IF Eq(gamma, Z(0)) THEN Infinity
    ELSE Mul(Z(-20), MathLog10(gamma))

returnLossToGamma(returnLoss) ==
    IF ~isFinite(returnLoss) THEN Z(0)
    ELSE MathPow10(Div(Neg(returnLoss), Z(20)))

mismatchLoss(gamma) == Mul(Z(-10), MathLog10(Sub(Z(1), Mul(gamma, gamma))))

\* frequencyToWavelength(frequency, freqUnit, velocityFactor)
frequencyToWavelength(frequency, freqUnit, velocityFactor) ==
    LET freqHz == Mul(frequency, ToNumber(Lookup(FREQ_UNITS, freqUnit)))
    IN  Div(Mul(Z(SPEED_OF_LIGHT), velocityFactor), freqHz)

\* fresnelZoneRadius(frequency, distance1, distance2, zone), frequency in Hz
fresnelZoneRadius(frequency, distance1, distance2, zone) ==
    LET wavelength == frequencyToWavelength(frequency, "Hz", Z(1))
        totalDistance == Add(distance1, distance2)
    IN  MathSqrt(Div(Mul(Mul(Mul(Z(zone), wavelength), distance1), distance2),
                     totalDistance))

\* Math.PI to seven digits
MathPI == R(355, 113)

\* the test  Math.abs(convertedValue) >= 0.1 && Math.abs(convertedValue) < 1000
ShowsWell(convertedValue) ==
    Ge(MathAbs(convertedValue), R(1, 10)) /\ Lt(MathAbs(convertedValue), Z(1000))

\* the unit of the largest factor among `fits`
LargestUnit(unitMap, fits) ==
    CHOOSE u \in fits : \A v \in fits : Ge(unitMap[u], unitMap[v])

InUnit(value, unitMap, unit) == [value |-> Div(value, unitMap[unit]), unit |-> unit]

\* the first of the units `fits`, tried from the largest factor down
FirstUnit(value, unitMap, baseUnit, fits) ==
    IF fits = {} THEN [value |-> value, unit |-> baseUnit]
    ELSE InUnit(value, unitMap, LargestUnit(unitMap, fits))

\* getAppropriateUnit(value, unitMap, baseUnit): the units are tried from the
\* largest factor down, the first that shows 0.1 <= |value| < 1000 wins
getAppropriateUnit(value, unitMap, baseUnit) ==
    FirstUnit(value, unitMap, baseUnit,
              {u \in DOMAIN unitMap : ShowsWell(Div(value, unitMap[u]))})

----------------------------------------------------------------------------
(* The page: error markers and result panes                                *)

PaneIds ==
    {"vswr-results", "dipole-results", "matching-results", "conv-power-result",
     "fresnel-results", "rlc-results", "patch-results", "lb-results",
     "yagi-results", "power-results", "loop-results", "tl-results"}

Empty == [kind |-> "empty"]

ErrorBlock(msg) == [message |-> msg, kind |-> "error"]

\* showError(inputId, message): the field gets the error class and one
\* error-message element (an earlier one is removed first)
showError(marks, inputId) == (marks \ {inputId}) \cup {inputId}

\* clearError(inputId)
clearError(marks, inputId) == marks \ {inputId}

clearErrors(marks, inputIds) == marks \ inputIds

\* localStorage.getItem of a key that was never set, params.get of a
\* parameter that is absent
NoItem == "null"

StorageKeys == {"freqradio-theme", "freqradio-current-tab"}

EmptyStorage == [key \in StorageKeys |-> NoItem]

\* no configuration in the URL, none shared yet
NoConfig == [tab |-> NoItem, theme |-> NoItem]

NoSearch == [tab |-> NoItem, theme |-> NoItem, config |-> NoConfig]

\* the page as the scripts find it: no tab active, `let currentTheme =
\* 'light'`, the literal `app`, no listener installed; `saved` is what
\* localStorage held when the page was opened
FreshPage(readyState, search, saved) ==
    [readyState |-> readyState,
     search |-> search,
     saved |-> saved,
     started |-> FALSE,
     activeTab |-> "",
     currentTheme |-> "light",
     bodyTheme |-> "light",
     app |-> [theme |-> "light", initialized |-> FALSE, currentTab |-> "antenna"],
     clickListeners |-> 0,
     keydownListeners |-> 0,
     inputListeners |-> 0,
     shared |-> NoConfig]

\* the number fields whose input events are followed here
TimedFields == {"loop-freq", "yagi-freq"}

\* `let timeout` of a debounced listener while nothing is pending
NoTimeout == -1

\* the clock in ms, the timeout of each debounced listener of each field,
\* and for each field the time of its last input event, the number of
\* calculator invocations since then and the delay of the latest
\* invocation after the input event before it
NoTimers ==
    [clock |-> 0,
     due |-> [field \in TimedFields |-> <<>>],
     lastInput |-> [field \in TimedFields |-> NoTimeout],
     invoked |-> [field \in TimedFields |-> 0],
     delay |-> [field \in TimedFields |-> NoTimeout]]

\* `currentChart = null`
NoChart == 0

\* `let currentChart = null`, no Chart created, the canvas not displayed;
\* hasCanvas: the document has the element 'chart-canvas'
NoCharts(hasCanvas) ==
    [hasCanvas |-> hasCanvas,
     live |-> {},
     currentChart |-> NoChart,
     created |-> 0,
     canvasShown |-> FALSE,
     overlay |-> "absent",
     closeBtn |-> FALSE]

InitCalculators ==
    /\ errors = {}
    /\ panes = [p \in PaneIds |-> Empty]
    /\ last = [calc |-> "none", outcome |-> "none", marked |-> {}]

Init ==
    /\ InitCalculators
    /\ localStorage = EmptyStorage
    /\ page = FreshPage("loading", NoSearch, EmptyStorage)
    /\ timers = NoTimers
    /\ charts = NoCharts(TRUE)

\* a rejection that also empties the result panes
RejectsClearingPanes(calc, in, inputId) ==
    /\ errors' = showError(errors, inputId)
    /\ panes' = [p \in PaneIds |-> Empty]
    /\ last' = [calc |-> calc, outcome |-> "rejected", marked |-> {inputId}, in |-> in]
    /\ UNCHANGED ui

\* a handler that stops at validation: one showError, then return
RejectsOnPage(calc, in, inputId) ==
    /\ errors' = showError(errors, inputId)
    /\ panes' = panes
    /\ last' = [calc |-> calc, outcome |-> "rejected", marked |-> {inputId}, in |-> in]

Rejects(calc, in, inputId) == RejectsOnPage(calc, in, inputId) /\ UNCHANGED ui

\* a handler that passes validation: clearError on the validated fields, then
\* the pane receives the result, or the error block of the catch clause
RendersOnPage(calc, in, cleared, pane, res, okOutcome) ==
    /\ errors' = clearErrors(errors, cleared)
    /\ panes' = [panes EXCEPT ![pane] =
                    IF res.threw THEN ErrorBlock(res.message) ELSE res.value]
    /\ last' = [calc |-> calc, outcome |-> IF res.threw THEN "error" ELSE okOutcome,
                marked |-> {},
                in |-> in]

Renders(calc, in, cleared, pane, res, okOutcome) ==
    RendersOnPage(calc, in, cleared, pane, res, okOutcome) /\ UNCHANGED ui

----------------------------------------------------------------------------
(* calculateVSWR                                                           *)

MaxOhmSteps == 4

MaxVswrHalves == 6

MaxGammaQuarters == 5

MaxReturnLossSteps == 4

\* what parseFloat yields for the impedance fields
OhmInputs == {NaN} \cup {Z(25 * k) : k \in -1 .. MaxOhmSteps}

VswrInputs == {NaN} \cup {R(k, 2) : k \in 0 .. MaxVswrHalves}

GammaInputs == {NaN} \cup {R(k, 4) : k \in -1 .. MaxGammaQuarters}

ReturnLossInputs == {NaN} \cup {Z(10 * k) : k \in -1 .. MaxReturnLossSteps}

\* `let vswr, gamma, returnLoss, mismatchLoss;` declares a local named
\* mismatchLoss.  Inside calculateVSWR the name denotes this local, which is
\* still undefined when `mismatchLoss = mismatchLoss(gamma)` calls it.
VSWRLocalMismatchLoss == Undefined

IsFunction(v) == v.t = "function"

VSWRQuality(vswr) ==
    IF Le(vswr, R(12, 10)) THEN "Excellent"
    ELSE IF Le(vswr, R(15, 10)) THEN "Good"
    ELSE IF Le(vswr, Z(2)) THEN "Acceptable"
    ELSE "Poor"

\* the rendered result
VSWRResult(gamma, vswr, returnLoss, ml, gammaSquared) ==
    Return([gamma |-> formatNumber(gamma, 4),
            vswr |-> formatNumber(vswr, 3),
            returnLoss |-> formatNumber(returnLoss, 2),
            mismatchLoss |-> formatNumber(ml, 3),
            kind |-> "result",
            powerReflected |-> formatNumber(Mul(gammaSquared, Z(100)), 2),
            powerTransmitted |-> formatNumber(Mul(Sub(Z(1), gammaSquared), Z(100)), 2),
            zMax |-> formatNumber(Mul(Z(50), vswr), 1),
            zMin |-> formatNumber(Div(Z(50), vswr), 1),
            quality |-> VSWRQuality(vswr)])

\* the try block after the switch: `gamma` is the mode's reflection coefficient
VSWRCompute(gamma) ==
    IF ~IsFunction(VSWRLocalMismatchLoss)
    THEN Throw("mismatchLoss is not a function")
    ELSE VSWRResult(gamma, gammaToVSWR(gamma), gammaToReturnLoss(gamma),
                    mismatchLoss(gamma), Mul(gamma, gamma))

VSWRImpedances ==
    \E z0In \in OhmInputs, zlIn \in OhmInputs :
        LET in == [mode |-> "impedances", z0 |-> z0In, zl |-> zlIn]
            z0 == OrDefault(z0In, Z(50))
            zl == zlIn
        IN  IF ~validateInput1(zl) THEN Rejects("calculateVSWR", in, "vswr-zl")
            ELSE IF ~validateInput1(z0) THEN Rejects("calculateVSWR", in, "vswr-z0")
            ELSE Renders("calculateVSWR", in, {"vswr-zl", "vswr-z0"}, "vswr-results",
                         VSWRCompute(MathAbs(Div(Sub(zl, z0), Add(zl, z0)))),
                         "rendered")

VSWRFromVswr ==
    \E inputVswr \in VswrInputs :
        LET in == [value |-> inputVswr, mode |-> "vswr"]
        IN  IF ~validateInput(inputVswr, Z(1), Infinity)
            THEN Rejects("calculateVSWR", in, "vswr-value")
            ELSE Renders("calculateVSWR", in, {"vswr-value"}, "vswr-results",
                         VSWRCompute(vswrToGamma(inputVswr)), "rendered")

VSWRReflection ==
    \E inputGamma \in GammaInputs :
        LET in == [value |-> inputGamma, mode |-> "reflection"]
        IN  IF ~validateInput(inputGamma, Z(0), Z(1))
            THEN Rejects("calculateVSWR", in, "gamma-value")
            ELSE Renders("calculateVSWR", in, {"gamma-value"}, "vswr-results",
                         VSWRCompute(inputGamma), "rendered")

VSWRReturnLoss ==
    \E inputRL \in ReturnLossInputs :
        LET in == [value |-> inputRL, mode |-> "return-loss"]
        IN  IF ~validateInput(inputRL, Z(0), Infinity)
            THEN Rejects("calculateVSWR", in, "rl-value")
            ELSE Renders("calculateVSWR", in, {"rl-value"}, "vswr-results",
                         VSWRCompute(returnLossToGamma(inputRL)), "rendered")

\* an input type that is none of the four: the switch's default throws
VSWRInvalidType ==
    \E inputType \in {"other"} :
        Renders("calculateVSWR", [mode |-> inputType], {}, "vswr-results",
                Throw("Invalid input type"), "rendered")

calculateVSWR ==
    \/ VSWRImpedances
    \/ VSWRFromVswr
    \/ VSWRReflection
    \/ VSWRReturnLoss
    \/ VSWRInvalidType

NextVSWR == calculateVSWR

SpecVSWR == Init /\ [][NextVSWR]_vars

FourModes == {"impedances", "vswr", "reflection", "return-loss"}

\* the documented input domain of a mode
VSWRInputValid(in) ==
    CASE in.mode = "impedances" ->
            /\ isFinite(in.zl) /\ Gt(in.zl, Z(0))
            /\ isFinite(OrDefault(in.z0, Z(50))) /\ Gt(OrDefault(in.z0, Z(50)), Z(0))
      [] in.mode = "vswr" -> isFinite(in.value) /\ Ge(in.value, Z(1))
      [] in.mode = "reflection" -> Ge(in.value, Z(0)) /\ Le(in.value, Z(1))
      [] in.mode = "return-loss" -> isFinite(in.value) /\ Ge(in.value, Z(0))

\* the reflection coefficient a mode's input stands for
VSWRInputGamma(in) ==
    CASE in.mode = "impedances" ->
            MathAbs(Div(Sub(in.zl, OrDefault(in.z0, Z(50))),
                        Add(in.zl, OrDefault(in.z0, Z(50)))))
      [] in.mode = "vswr" -> Div(Sub(in.value, Z(1)), Add(in.value, Z(1)))
      [] in.mode = "reflection" -> in.value
      [] in.mode = "return-loss" -> MathPow10(Div(Neg(in.value), Z(20)))

\* C1: for every valid input of each of the four input modes calculateVSWR
\* ends with a rendered result (not an error block) that shows the mode's
\* reflection coefficient G and the VSWR (1+G)/(1-G); Z0 = 50, ZL = 75 shows
\* G = 0.2 and VSWR = 1.5.
C1_ValidInputRendersGammaAndVSWR ==
    (/\ last.calc = "calculateVSWR"
     /\ last.in.mode \in FourModes
     /\ VSWRInputValid(last.in))
    => LET g == VSWRInputGamma(last.in)
           pane == panes["vswr-results"]
       IN  /\ last.outcome = "rendered"
           /\ pane.kind = "result"
           /\ pane.gamma = formatNumber(g, 4)
           /\ pane.vswr = formatNumber(Div(Add(Z(1), g), Sub(Z(1), g)), 3)
           /\ (last.in = [mode |-> "impedances", z0 |-> Z(50), zl |-> Z(75)]
                  => pane.gamma = R(2, 10) /\ pane.vswr = R(15, 10))

\* C7: calculateVSWR rejects a mode's input exactly outside the documented
\* domain, with the error on the mode's field: VSWR mode accepts every finite
\* value >= 1, reflection mode every G with 0 <= G <= 1, return-loss mode
\* every finite RL >= 0.
C7_ModeDomainsAsDocumented ==
    (last.calc = "calculateVSWR" /\ last.in.mode \in FourModes \ {"impedances"})
    => /\ (last.outcome = "rejected") <=> ~VSWRInputValid(last.in)
       /\ last.outcome = "rejected" =>
             last.marked = {CASE last.in.mode = "vswr" -> "vswr-value"
                              [] last.in.mode = "reflection" -> "gamma-value"
                              [] last.in.mode = "return-loss" -> "rl-value"}

----------------------------------------------------------------------------
(* calculateDipole                                                         *)

MaxDipoleFreqSteps == 2

\* what parseFloat yields for dipole-freq: empty, 0, 14.2 and multiples of 7
DipoleFreqInputs == {NaN, R(142, 10)} \cup {Z(7 * k) : k \in 0 .. MaxDipoleFreqSteps}

DipoleFreqUnits == {"kHz", "MHz"}

DipoleTypes == {"halfwave", "fullwave", "quarterwave"}

WireDiameterInputs == {NaN, Z(2)}

\* the switch on dipoleType: total length and radiation resistance
DipoleTotalLength(dipoleType, wavelength) ==
    CASE dipoleType = "halfwave" -> Mul(Div(wavelength, Z(2)), DIPOLE_FACTOR)
      [] dipoleType = "fullwave" -> Mul(wavelength, DIPOLE_FACTOR)
      [] dipoleType = "quarterwave" -> Mul(Div(wavelength, Z(4)), MONOPOLE_FACTOR)

DipoleRadiationResistance(dipoleType) ==
    CASE dipoleType = "halfwave" -> DIPOLE_RESISTANCE
      [] dipoleType = "fullwave" -> Z(199)
      [] dipoleType = "quarterwave" -> MONOPOLE_RESISTANCE

DipoleGain(dipoleType) == IF dipoleType = "fullwave" THEN R(382, 100) ELSE R(214, 100)

DipoleBeamwidth(dipoleType) == IF dipoleType = "fullwave" THEN 47 ELSE 78

\* the wire-diameter block for the diameter in metres, `conv`
DipoleWireBlock(conv, totalLength) ==
    IF conv.threw THEN conv
    ELSE Return([shown |-> TRUE,
                 diameterMm |-> formatNumber(Mul(conv.value, Z(1000)), 2),
                 ratio |-> formatNumber(Div(totalLength, conv.value), 0)])

\* the wire-diameter block, rendered only for a valid diameter
DipoleWire(wireDiameter, wireUnit, totalLength) ==
    IF Truthy(wireDiameter) /\ validateInput1(wireDiameter)
    THEN DipoleWireBlock(convertUnits(wireDiameter, wireUnit, "m", LENGTH_UNITS),
                         totalLength)
    ELSE Return([shown |-> FALSE])

\* the rendered result
DipoleResult(dipoleType, totalLength, wire, bandwidth3db) ==
    IF wire.threw THEN wire
    ELSE Return([kind |-> "result",
                 totalLength |-> formatNumber(totalLength, 3),
                 wire |-> wire.value,
                 elementLength |-> IF dipoleType = "quarterwave" THEN Str("")
                                   ELSE formatNumber(Div(totalLength, Z(2)), 3),
                 totalLengthFt |-> formatNumber(Div(totalLength, LENGTH_UNITS["ft"]), 3),
                 feedImpedance |-> formatNumber(DipoleRadiationResistance(dipoleType), 0),
                 gain |-> formatNumber(DipoleGain(dipoleType), 2),
                 beamwidth |-> DipoleBeamwidth(dipoleType),
                 bandwidth |-> formatNumber(bandwidth3db, 1)])

\* q and the 3 dB bandwidth in MHz
DipoleBandwidth(frequency, freqUnit, dipoleType) ==
    Div(Div(Mul(frequency, FREQ_UNITS[freqUnit]),
            IF dipoleType = "quarterwave" THEN Z(25) ELSE Z(15)),
        Canon(1, 1, 6))

DipoleWithLength(frequency, freqUnit, dipoleType, wireDiameter, wireUnit, totalLength) ==
    DipoleResult(dipoleType, totalLength,
                 DipoleWire(wireDiameter, wireUnit, totalLength),
                 DipoleBandwidth(frequency, freqUnit, dipoleType))

\* the try block of calculateDipole
DipoleCompute(frequency, freqUnit, dipoleType, wireDiameter, wireUnit) ==
    DipoleWithLength(frequency, freqUnit, dipoleType, wireDiameter, wireUnit,
        DipoleTotalLength(dipoleType,
                          frequencyToWavelength(frequency, freqUnit, VELOCITY_FACTOR)))

DipoleInputs ==
    [frequency : DipoleFreqInputs, freqUnit : DipoleFreqUnits,
     dipoleType : DipoleTypes, wireDiameter : WireDiameterInputs]

\* what the try block yields on each input, evaluated once
DipoleTry ==
    Tabulate([in \in DipoleInputs |->
                 DipoleCompute(in.frequency, in.freqUnit, in.dipoleType,
                               in.wireDiameter, "mm")])

calculateDipole ==
    \E in \in DipoleInputs :
        IF ~validateInput1(in.frequency)
        THEN Rejects("calculateDipole", in, "dipole-freq")
        ELSE Renders("calculateDipole", in, {"dipole-freq"}, "dipole-results",
                     DipoleTry[in], "rendered")

NextDipole == calculateDipole

SpecDipole == Init /\ [][NextDipole]_vars

\* the fraction of the wavelength a dipole type spans
DipoleFraction(dipoleType) ==
    CASE dipoleType = "halfwave" -> R(1, 2)
      [] dipoleType = "fullwave" -> Z(1)
      [] dipoleType = "quarterwave" -> R(1, 4)

\* x equals y to within one part in a thousand
Near(x, y) ==
    /\ isFinite(x) /\ isFinite(y)
    /\ Le(MathAbs(Sub(x, y)), Div(MathAbs(y), Z(1000)))

\* C2: for every valid frequency f the reported total length is the
\* free-space wavelength c/f times 1/2 (half-wave), 1/4 (quarter-wave) or 1
\* (full-wave) times one shortening factor 0.95, and the reported feed
\* resistance is 73, 36.5 or 199 ohm (lengths compared to within 0.1 %); at
\* 14.2 MHz the half-wave length is 10.03 m to the centimetre.
C2_LengthIsFreeSpaceWavelengthTimesOneFactor ==
    (last.calc = "calculateDipole" /\ last.outcome = "rendered")
    => LET in == last.in
           pane == panes["dipole-results"]
           lambda == Div(Z(SPEED_OF_LIGHT), Mul(in.frequency, FREQ_UNITS[in.freqUnit]))
           length == Mul(Mul(lambda, DipoleFraction(in.dipoleType)), R(95, 100))
       IN  /\ Near(pane.totalLength, length)
           /\ pane.feedImpedance =
                 (CASE in.dipoleType = "halfwave" -> Z(73)
                    [] in.dipoleType = "fullwave" -> Z(199)
                    [] in.dipoleType = "quarterwave" -> R(365, 10))
           /\ (in.frequency = R(142, 10) /\ in.freqUnit = "MHz"
                  /\ in.dipoleType = "halfwave"
                  => formatNumber(pane.totalLength, 2) = R(1003, 100))

----------------------------------------------------------------------------
(* calculateMatching                                                       *)

MaxTargetQ == 2

\* what parseFloat yields for match-freq, match-rs, match-rl and match-q
MatchFreqInputs == {NaN, Z(7)}

MatchSourceInputs == {NaN, Z(-1), Z(200)}

MatchLoadInputs == {NaN, Z(50), R(5005, 100), Z(200), Z(250)}

TargetQInputs == {NaN} \cup {Z(k) : k \in 0 .. MaxTargetQ}

\* the guard of the `already matched` branch
MatchingExactlyEqual(rs, rl) == Eq(rs, rl)

MatchingAlreadyMatched(rs, rl) == Lt(MathAbs(Sub(rs, rl)), R(1, 10))

\* qActual = targetQ && validateInput(targetQ) ? targetQ : qRequired
MatchingQActual(targetQ, qRequired) ==
    IF Truthy(targetQ) /\ validateInput1(targetQ) THEN targetQ ELSE qRequired

\* the text `${formatNumber(units.value, 3)} ${units.unit}`
formatComponentText(units) ==
    [value |-> formatNumber(units.value, 3), unit |-> units.unit]

\* formatComponent(comp)
formatComponent(comp) ==
    formatComponentText(
        getAppropriateUnit(comp.value,
                           IF comp.type = "L" THEN INDUCTANCE_UNITS ELSE CAPACITANCE_UNITS,
                           IF comp.type = "L" THEN "H" ELSE "F"))

\* one `Network` item of the result: its two components and the reactances
\* printed under them
MatchingNetwork(config, parallel, series, xp, xs) ==
    [config |-> config,
     parallel |-> [type |-> parallel.type, text |-> formatComponent(parallel)],
     series |-> [type |-> series.type, text |-> formatComponent(series)],
     xParallel |-> formatNumber(xp, 1),
     xSeries |-> formatNumber(xs, 1)]

\* both items showing the parallel-C network
MatchingNetworksAlike(stepDown, cl, lc) == <<cl, cl>>

\* network1 and network2: the parallel-C network first when rs > rl
MatchingNetworks(stepDown, cl, lc) == IF stepDown THEN <<cl, lc>> ELSE <<lc, cl>>

\* the rendered result
MatchingResult(rs, rl, ratio, qRequired, qActual, xp, xs, networks, bandwidth, freqHz) ==
    Return([kind |-> "result",
            ratio |-> formatNumber(ratio, 2),
            rs |-> formatNumber(rs, 1),
            rl |-> formatNumber(rl, 1),
            qRequired |-> formatNumber(qRequired, 2),
            xp |-> formatNumber(xp, 1),
            xs |-> formatNumber(xs, 1),
            qActual |-> formatNumber(qActual, 2),
            networks |-> networks,
            bandwidthMHz |-> formatNumber(Div(bandwidth, Canon(1, 1, 6)), 3),
            fractionalBW |-> formatNumber(Mul(Div(bandwidth, freqHz), Z(100)), 2),
            bandwidthKHz |-> formatNumber(Div(bandwidth, Canon(1, 1, 3)), 1)])

\* lSeries, cSeries, lParallel, cParallel and bandwidth from the reactances
MatchingComponents(rs, rl, ratio, qRequired, qActual, xp, xs, omega, freqHz) ==
    MatchingResult(rs, rl, ratio, qRequired, qActual, xp, xs,
        MatchingNetworks(Gt(rs, rl),
            MatchingNetwork("C parallel to source, L series to load",
                [value |-> Div(Z(1), Mul(MathAbs(xp), omega)), type |-> "C"],
                [value |-> Div(MathAbs(xs), omega), type |-> "L"], xp, xs),
            MatchingNetwork("L parallel to source, C series to load",
                [value |-> Div(MathAbs(xp), omega), type |-> "L"],
                [value |-> Div(Z(1), Mul(MathAbs(xs), omega)), type |-> "C"], xp, xs)),
        Div(freqHz, qActual), freqHz)

\* the reactances of the step down, whichever resistance is the higher
MatchingReactancesFromSource(rs, rl, ratio, qRequired, qActual, omega, freqHz) ==
    MatchingComponents(rs, rl, ratio, qRequired, qActual,
        Div(rs, qActual), Mul(qActual, rl), omega, freqHz)

\* xp and xs for the Q in use
MatchingReactances(rs, rl, ratio, qRequired, qActual, omega, freqHz) ==
    MatchingComponents(rs, rl, ratio, qRequired, qActual,
        IF Gt(rs, rl) THEN Div(rs, qActual) ELSE Div(rl, qActual),
        IF Gt(rs, rl) THEN Mul(qActual, rl) ELSE Mul(qActual, rs),
        omega, freqHz)

\* qRequired = sqrt(rHigh / rLow - 1) and the Q in use
MatchingFromRatio(rs, rl, targetQ, ratio, qRequired, freqHz) ==
    MatchingReactances(rs, rl, ratio, qRequired, MatchingQActual(targetQ, qRequired),
                       Mul(Mul(Z(2), MathPI), freqHz), freqHz)

MatchingRequiredQ(ratio) == MathSqrt(Sub(ratio, Z(1)))

MatchingAt(rs, rl, targetQ, ratio, freqHz) ==
    MatchingFromRatio(rs, rl, targetQ, ratio, MatchingRequiredQ(ratio), freqHz)

\* the try block of calculateMatching
MatchingCompute(frequency, freqUnit, rs, rl, targetQ) ==
    MatchingAt(rs, rl, targetQ, Div(MathMax(rs, rl), MathMin(rs, rl)),
               Mul(frequency, FREQ_UNITS[freqUnit]))

MatchingInfo ==
    [message |-> "Source and load resistances are already matched - no matching network needed.",
     kind |-> "info"]

MatchingInputs ==
    [frequency : MatchFreqInputs, rs : MatchSourceInputs,
     rl : MatchLoadInputs, targetQ : TargetQInputs]

\* what the try block yields on each input, evaluated once
MatchingTry ==
    Tabulate([in \in MatchingInputs |->
                 MatchingCompute(in.frequency, "MHz", OrDefault(in.rs, Z(50)),
                                 in.rl, in.targetQ)])

calculateMatching ==
    \E in \in MatchingInputs :
        LET rs == OrDefault(in.rs, Z(50))
            fields == {"match-freq", "match-rl", "match-rs"}
        IN  IF ~validateInput1(in.frequency)
            THEN Rejects("calculateMatching", in, "match-freq")
            ELSE IF ~validateInput1(in.rl)
            THEN Rejects("calculateMatching", in, "match-rl")
            ELSE IF ~validateInput1(rs)
            THEN Rejects("calculateMatching", in, "match-rs")
            ELSE IF MatchingAlreadyMatched(rs, in.rl)
            THEN Renders("calculateMatching", in, fields, "matching-results",
                         Return(MatchingInfo), "info")
            ELSE Renders("calculateMatching", in, fields, "matching-results",
                         MatchingTry[in], "rendered")

NextMatching == calculateMatching

SpecMatching == Init /\ [][NextMatching]_vars

\* the invocation just made was calculateMatching and passed validation
MatchingRan == last.calc = "calculateMatching" /\ last.outcome # "rejected"

MatchingTwoVariants(pane) ==
    /\ pane.kind = "result"
    /\ Len(pane.networks) = 2
    /\ pane.networks[1].config # pane.networks[2].config
    /\ \A i \in 1 .. 2 :
          {pane.networks[i].parallel.type, pane.networks[i].series.type} = {"L", "C"}
    /\ pane.networks[1].parallel.type # pane.networks[2].parallel.type

C4_QNeverBelowRequired ==
    (last.calc = "calculateMatching" /\ last.outcome = "rendered")
    => LET in == last.in
           pane == panes["matching-results"]
           rs == OrDefault(in.rs, Z(50))
           rHigh == MathMax(rs, in.rl)
           rLow == MathMin(rs, in.rl)
           qRequired == MathSqrt(Sub(Div(rHigh, rLow), Z(1)))
           q == IF isFinite(in.targetQ) /\ Ge(in.targetQ, qRequired)
                THEN in.targetQ ELSE qRequired
           freqHz == Mul(in.frequency, FREQ_UNITS["MHz"])
       IN  /\ Ge(pane.qActual, pane.qRequired)
           /\ pane.qRequired = formatNumber(qRequired, 2)
           /\ pane.qActual = formatNumber(q, 2)
           /\ pane.xs = formatNumber(Mul(q, rLow), 1)
           /\ pane.xp = formatNumber(Div(rHigh, q), 1)
           /\ pane.bandwidthMHz = formatNumber(Div(Div(freqHz, q), Canon(1, 1, 6)), 3)

----------------------------------------------------------------------------
(* Calls of the utility functions                                          *)

\* a call of a utility function: nothing on the page changes
Calls(fn, in, res) ==
    /\ last' = [calc |-> fn, outcome |-> IF res.threw THEN "threw" ELSE "returned",
                marked |-> {},
                in |-> in, result |-> res]
    /\ UNCHANGED <<errors, panes>>
    /\ UNCHANGED ui

MaxUnitValue == 2

UnitValues == {NaN} \cup {Z(k) : k \in -1 .. MaxUnitValue}

UnitTables ==
    [name \in {"FREQ_UNITS", "LENGTH_UNITS", "INDUCTANCE_UNITS", "CAPACITANCE_UNITS",
               "RESISTANCE_UNITS", "POWER_UNITS"} |->
        CASE name = "FREQ_UNITS" -> FREQ_UNITS
          [] name = "LENGTH_UNITS" -> LENGTH_UNITS
          [] name = "INDUCTANCE_UNITS" -> INDUCTANCE_UNITS
          [] name = "CAPACITANCE_UNITS" -> CAPACITANCE_UNITS
          [] name = "RESISTANCE_UNITS" -> RESISTANCE_UNITS
          [] name = "POWER_UNITS" -> POWER_UNITS]

\* unit names a caller may pass with a table: its entries, entries of other
\* tables and two names that no table has
UnitNames(table) == DOMAIN UnitTables[table] \cup {"Hz", "m", "dBm", "furlong", ""}

convertUnitsCall ==
    \E value \in UnitValues, table \in DOMAIN UnitTables :
        \E fromUnit \in UnitNames(table), toUnit \in UnitNames(table) :
            Calls("convertUnits",
                  [value |-> value, table |-> table, fromUnit |-> fromUnit, toUnit |-> toUnit],
                  convertUnits(value, fromUnit, toUnit, UnitTables[table]))

NextUnits == convertUnitsCall

SpecUnits == Init /\ [][NextUnits]_vars

\* C6: convertUnits fails with an unknown-unit error whenever fromUnit or
\* toUnit is not an entry of the table, and returns a number only when both
\* are entries of the table.
C6_UnknownUnitAlwaysFails ==
    last.calc = "convertUnits"
    => LET known == DOMAIN UnitTables[last.in.table]
       IN  /\ (last.in.fromUnit \notin known \/ last.in.toUnit \notin known)
                 => last.outcome = "threw"
           /\ last.outcome = "returned"
                 => last.in.fromUnit \in known /\ last.in.toUnit \in known

\* C11: every unit table of the constants that is passed to convertUnits
\* (FREQ_UNITS, LENGTH_UNITS, INDUCTANCE_UNITS, CAPACITANCE_UNITS,
\* RESISTANCE_UNITS, POWER_UNITS) has exactly one entry with factor 1, all of
\* its factors are strictly positive numbers, and neither dBm nor dBW is an
\* entry of it.
C11_UnitTablesAreLinear ==
    last.calc = "convertUnits"
    => LET unitMap == UnitTables[last.in.table]
       IN  /\ Cardinality({u \in DOMAIN unitMap : unitMap[u] = Z(1)}) = 1
           /\ \A u \in DOMAIN unitMap : isFinite(unitMap[u]) /\ Sgn(unitMap[u]) > 0
           /\ DOMAIN unitMap \cap {"dBm", "dBW"} = {}

----------------------------------------------------------------------------
(* convertPower(value, fromUnit, toUnit) and calculatePowerConversions     *)

MaxPowerSteps == 2

\* powers a caller or the conv-power field supplies: none, -10, 0, 10, ...
PowerInputs == {NaN} \cup {Z(10 * k - 10) : k \in 0 .. MaxPowerSteps}

PowerUnitNames == {"W", "mW", "kW", "dBm", "dBW"}

LinearPowerUnits == {"W", "mW", "kW"}

convertPowerCall ==
    \E value \in PowerInputs, fromUnit \in PowerUnitNames \cup {"hp"},
       toUnit \in PowerUnitNames \cup {"hp"} :
        Calls("convertPower",
              [fromUnit |-> fromUnit, toUnit |-> toUnit, power |-> value],
              convertPowerUtil(value, fromUnit, toUnit))

\* the first switch: the power in watts
PowerToWatts(power, fromUnit) ==
    CASE fromUnit = "mW" -> Div(power, Z(1000))
      [] fromUnit = "W" -> power
      [] fromUnit = "kW" -> Mul(power, Z(1000))
      [] fromUnit = "dBm" -> MathPow10(Div(Sub(power, Z(30)), Z(10)))
      [] fromUnit = "dBW" -> MathPow10(Div(power, Z(10)))
      [] OTHER -> power

\* the second switch: the power in the target unit
PowerFromWatts(watts, toUnit) ==
    CASE toUnit = "mW" -> Mul(watts, Z(1000))
      [] toUnit = "W" -> watts
      [] toUnit = "kW" -> Div(watts, Z(1000))
      [] toUnit = "dBm" -> Mul(Z(10), MathLog10(Mul(watts, Z(1000))))
      [] toUnit = "dBW" -> Mul(Z(10), MathLog10(watts))
      [] OTHER -> watts

\* the rendered result
PowerConversionsResult(watts, result, toUnit) ==
    Return([dBm |-> formatNumber(Mul(Z(10), MathLog10(Mul(watts, Z(1000)))), 2),
            dBW |-> formatNumber(Mul(Z(10), MathLog10(watts)), 2),
            watts |-> formatNumber(watts, 6),
            toUnit |-> toUnit,
            kind |-> "result",
            result |-> formatNumber(result, 6)])

PowerConversionsIn(watts, toUnit) ==
    PowerConversionsResult(watts, PowerFromWatts(watts, toUnit), toUnit)

\* the try block of calculatePowerConversions
PowerConversionsCompute(power, fromUnit, toUnit) ==
    PowerConversionsIn(PowerToWatts(power, fromUnit), toUnit)

PowerConversionsInputs ==
    [fromUnit : PowerUnitNames, toUnit : PowerUnitNames, power : PowerInputs]

PowerConversionsTry ==
    Tabulate([in \in PowerConversionsInputs |->
                 PowerConversionsCompute(in.power, in.fromUnit, in.toUnit)])

calculatePowerConversions ==
    \E in \in PowerConversionsInputs :
        IF isNaN(in.power)
        THEN Rejects("calculatePowerConversions", in, "power-conversions")
        ELSE Renders("calculatePowerConversions", in, {"power-conversions"},
                     "conv-power-result", PowerConversionsTry[in], "rendered")

NextPower == convertPowerCall \/ calculatePowerConversions

SpecPower == Init /\ [][NextPower]_vars

\* C5: converting a linear power that is not positive (0 W, 0 mW, -10 kW) to
\* dBm or dBW fails with a domain error: the convertPower utility throws
\* instead of returning a value, and the power-conversion calculator shows
\* an error instead of rendering a result.
C5_NonPositivePowerHasNoDecibels ==
    (/\ last.calc \in {"convertPower", "calculatePowerConversions"}
     /\ last.in.fromUnit \in LinearPowerUnits
     /\ last.in.toUnit \in {"dBm", "dBW"}
     /\ isFinite(last.in.power) /\ Le(last.in.power, Z(0)))
    => IF last.calc = "convertPower" THEN last.outcome = "threw"
       ELSE last.outcome \in {"rejected", "error"}

----------------------------------------------------------------------------
(* calculateFresnel                                                        *)

MaxPositionSteps == 6

\* what parseFloat yields for fresnel-freq (MHz), fresnel-distance (km) and
\* fresnel-position: none, -25, 0, 25, ... in km or in percent of the path
FresnelFreqInputs == {NaN, Z(300)}

FresnelDistanceInputs == {NaN, Z(-1), Z(100)}

FresnelPositionInputs == {NaN} \cup {Z(25 * k - 25) : k \in 0 .. MaxPositionSteps}

FresnelPositionUnits == {"km", "percent"}

PositionError == "Position must be between transmitter and receiver"

\* the position branch: the midpoint unless the position is truthy and valid
FresnelD1(position, positionUnit, totalDistanceM) ==
    IF ~Truthy(position) \/ ~validateInput1(position)
    THEN Return(Div(totalDistanceM, Z(2)))
    ELSE IF positionUnit = "percent"
         THEN Return(Div(Mul(totalDistanceM, position), Z(100)))
    ELSE convertUnits(position, positionUnit, "m", LENGTH_UNITS)

\* the result pane of calculateFresnel
FresnelPane(totalDistanceM, d1, d2, wavelength, zones, earthBulge) ==
    LET recommendedClearance60 == Mul(zones[1], R(6, 10))
    IN  [wavelength |-> formatNumber(wavelength, 3),
         kind |-> "result",
         zones |-> [n \in 1 .. 5 |-> formatNumber(zones[n], 2)],
         earthBulge |-> formatNumber(earthBulge, 3),
         totalKm |-> formatNumber(Div(totalDistanceM, Z(1000)), 3),
         d1Km |-> formatNumber(Div(d1, Z(1000)), 3),
         d1Percent |-> formatNumber(Mul(Div(d1, totalDistanceM), Z(100)), 1),
         d2Km |-> formatNumber(Div(d2, Z(1000)), 3),
         d2Percent |-> formatNumber(Mul(Div(d2, totalDistanceM), Z(100)), 1),
         clearance60 |-> formatNumber(recommendedClearance60, 2),
         clearance100 |-> formatNumber(zones[1], 2),
         antennaHeight |-> formatNumber(Add(recommendedClearance60, earthBulge), 1)]

\* the try block from the range check on
FresnelAt(freqHz, totalDistanceM, d1, d2) ==
    IF Le(d1, Z(0)) \/ Le(d2, Z(0)) \/ Ge(d1, totalDistanceM)
    THEN Throw(PositionError)
    ELSE Return(FresnelPane(totalDistanceM, d1, d2,
                            frequencyToWavelength(freqHz, "Hz", Z(1)),
                            [n \in 1 .. 5 |-> fresnelZoneRadius(freqHz, d1, d2, n)],
                            Div(Mul(d1, d2), Mul(Z(2), Z(6371000)))))

FresnelFrom(freqHz, totalDistanceM, pos) ==
    IF pos.threw THEN pos
    ELSE FresnelAt(freqHz, totalDistanceM, pos.value, Sub(totalDistanceM, pos.value))

\* the try block of calculateFresnel
FresnelCompute(frequency, freqUnit, distance, distanceUnit, position, positionUnit) ==
    LET total == convertUnits(distance, distanceUnit, "m", LENGTH_UNITS)
    IN  IF total.threw THEN total
        ELSE FresnelFrom(Mul(frequency, FREQ_UNITS[freqUnit]), total.value,
                         FresnelD1(position, positionUnit, total.value))

FresnelInputs ==
    [frequency : FresnelFreqInputs, position : FresnelPositionInputs,
     positionUnit : FresnelPositionUnits, distance : FresnelDistanceInputs]

FresnelTry ==
    Tabulate([in \in FresnelInputs |->
                 FresnelCompute(in.frequency, "MHz", in.distance, "km",
                                in.position, in.positionUnit)])

calculateFresnel ==
    \E in \in FresnelInputs :
        IF ~validateInput1(in.frequency)
        THEN Rejects("calculateFresnel", in, "fresnel-freq")
        ELSE IF ~validateInput1(in.distance)
        THEN Rejects("calculateFresnel", in, "fresnel-distance")
        ELSE Renders("calculateFresnel", in, {"fresnel-freq", "fresnel-distance"},
                     "fresnel-results", FresnelTry[in], "rendered")

NextFresnel == calculateFresnel

SpecFresnel == Init /\ [][NextFresnel]_vars

\* C8: for every supplied obstruction position (a distance or a percentage
\* of the path) calculateFresnel fails with the `Position must be between
\* transmitter and receiver` error whenever the position's distance d1 from
\* the transmitter is not strictly inside (0, totalDistance); whenever it
\* succeeds, the d1 used is the supplied position, 0 < d1 < totalDistance
\* and d2 = totalDistance - d1 > 0.
C8_PositionStrictlyInsideOrError ==
    (/\ last.calc = "calculateFresnel" /\ last.outcome # "rejected"
     /\ ~isNaN(last.in.position))
    => LET pane == panes["fresnel-results"]
           total == Mul(last.in.distance, LENGTH_UNITS["km"])
           d1 == IF last.in.positionUnit = "percent"
                 THEN Div(Mul(total, last.in.position), Z(100))
                 ELSE Mul(last.in.position, LENGTH_UNITS["km"])
           inside == Gt(d1, Z(0)) /\ Lt(d1, total)
       IN  /\ ~inside => last.outcome = "error" /\ pane = ErrorBlock(PositionError)
           /\ last.outcome = "rendered"
                 => /\ inside
                    /\ pane.d1Km = formatNumber(Div(d1, Z(1000)), 3)
                    /\ pane.d2Km = formatNumber(Div(Sub(total, d1), Z(1000)), 3)

----------------------------------------------------------------------------
(* calculateRLC                                                            *)

MaxRlcOhmSteps == 2

\* what parseFloat yields for rlc-resistance (ohm), rlc-inductance (uH) and
\* rlc-capacitance (pF)
RlcResistanceInputs == {NaN} \cup {Z(50 * k) : k \in 0 .. MaxRlcOhmSteps}

RlcInductanceInputs == {NaN, Z(10)}

RlcCapacitanceInputs == {NaN, Z(1000)}

RlcConfigs == {"series", "parallel"}

TWO_PI == Mul(Z(2), MathPI)

inductiveReactance(frequency, inductance) == Mul(Mul(TWO_PI, frequency), inductance)

lcResonantFrequency(inductance, capacitance) ==
    Div(Z(1), Mul(TWO_PI, MathSqrt(Mul(inductance, capacitance))))

seriesQFactor(resistance, inductance, capacitance) ==
    Div(inductiveReactance(lcResonantFrequency(inductance, capacitance), inductance),
        resistance)

RLCDampingType(qFactor) ==
    IF Lt(qFactor, R(1, 2)) THEN "Overdamped"
    ELSE IF Eq(qFactor, R(1, 2)) THEN "Critically damped"
    ELSE "Underdamped"

\* the rendered result
RLCResult(in, rOhms, lHenries, resonantFreq, qFactor, characteristicImpedance, bandwidth3db) ==
    Return([kind |-> "result",
            config |-> in.config,
            bandwidthKHz |-> formatNumber(Div(bandwidth3db, Canon(1, 1, 3)), 3),
            inductance |-> formatNumber(in.inductance, 3),
            capacitance |-> formatNumber(in.capacitance, 3),
            resistance |-> formatNumber(in.resistance, 3),
            qFactor |-> formatNumber(qFactor, 2),
            characteristicImpedance |-> formatNumber(characteristicImpedance, 2),
            resonantMHz |-> formatNumber(Div(resonantFreq, Canon(1, 1, 6)), 6),
            omegaMrads |-> formatNumber(Div(Mul(TWO_PI, resonantFreq), Canon(1, 1, 6)), 3),
            impedanceAtResonance |-> formatNumber(rOhms, 2),
            lowerCutoffMHz |->
                formatNumber(Div(Sub(resonantFreq, Div(bandwidth3db, Z(2))),
                                 Canon(1, 1, 6)), 6),
            upperCutoffMHz |->
                formatNumber(Div(Add(resonantFreq, Div(bandwidth3db, Z(2))),
                                 Canon(1, 1, 6)), 6),
            dampingFactor |-> formatNumber(Div(Z(1), Mul(Z(2), qFactor)), 3),
            dampingType |-> RLCDampingType(qFactor),
            timeConstantUs |->
                formatNumber(Mul(Div(Mul(Z(2), lHenries), rOhms), Canon(1, 1, 6)), 3),
            ringdownUs |->
                formatNumber(Mul(Div(Mul(Z(2), qFactor), Mul(TWO_PI, resonantFreq)),
                                 Canon(1, 1, 6)), 3)])

\* characteristicImpedance and bandwidth3db for the Q of the configuration
RLCWithQ(in, rOhms, lHenries, cFarads, resonantFreq, qFactor) ==
    RLCResult(in, rOhms, lHenries, resonantFreq, qFactor,
              MathSqrt(Div(lHenries, cFarads)), Div(resonantFreq, qFactor))

\* qFactor: seriesQFactor, or rOhms / xl for the parallel configuration
RLCAt(in, rOhms, lHenries, cFarads, resonantFreq) ==
    RLCWithQ(in, rOhms, lHenries, cFarads, resonantFreq,
             IF in.config = "series" THEN seriesQFactor(rOhms, lHenries, cFarads)
             ELSE Div(rOhms, inductiveReactance(resonantFreq, lHenries)))

\* the three convertUnits calls have returned or thrown
RLCConverted(in, rConv, lConv, cConv) ==
    IF rConv.threw THEN rConv
    ELSE IF lConv.threw THEN lConv
    ELSE IF cConv.threw THEN cConv
    ELSE RLCAt(in, rConv.value, lConv.value, cConv.value,
               lcResonantFrequency(lConv.value, cConv.value))

\* the try block of calculateRLC
RLCCompute(in, rUnit, lUnit, cUnit) ==
    RLCConverted(in,
                 convertUnits(in.resistance, rUnit, "ohm", RESISTANCE_UNITS),
                 convertUnits(in.inductance, lUnit, "H", INDUCTANCE_UNITS),
                 convertUnits(in.capacitance, cUnit, "F", CAPACITANCE_UNITS))

RLCInputs ==
    [config : RlcConfigs, inductance : RlcInductanceInputs,
     capacitance : RlcCapacitanceInputs, resistance : RlcResistanceInputs]

\* what the try block yields on each input, evaluated once
RLCTry == Tabulate([in \in RLCInputs |-> RLCCompute(in, "ohm", "uH", "pF")])

calculateRLC ==
    \E in \in RLCInputs :
        IF ~validateInput1(in.resistance)
        THEN Rejects("calculateRLC", in, "rlc-resistance")
        ELSE IF ~validateInput1(in.inductance)
        THEN Rejects("calculateRLC", in, "rlc-inductance")
        ELSE IF ~validateInput1(in.capacitance)
        THEN Rejects("calculateRLC", in, "rlc-capacitance")
        ELSE Renders("calculateRLC", in,
                     {"rlc-resistance", "rlc-inductance", "rlc-capacitance"},
                     "rlc-results", RLCTry[in], "rendered")

NextRLC == calculateRLC

SpecRLC == Init /\ [][NextRLC]_vars

\* the step is an invocation that stopped at validation
RejectedStep == last'.outcome = "rejected"

\* C9: whenever a calculator rejects an input at validation, exactly one
\* field receives an error marker in that invocation (it carries the marker
\* afterwards and the markers of all other fields are as they were), and
\* every results pane, the calculator's own included, has the content it had
\* before the invocation.
C9_RejectionMarksOneFieldAndKeepsPane ==
    [][RejectedStep =>
          /\ Cardinality(last'.marked) = 1
          /\ last'.marked \subseteq errors'
          /\ errors' \ last'.marked = errors \ last'.marked
          /\ panes' = panes]_vars

\* a rejection by calculateRLC while its pane holds an earlier result and
\* another field still carries the marker of an earlier rejection
C9_Witness_RejectedWithResultShown ==
    /\ last.calc = "calculateRLC" /\ last.outcome = "rejected"
    /\ panes["rlc-results"].kind = "result"
    /\ last.marked = {"rlc-inductance"}
    /\ errors = {"rlc-resistance", "rlc-inductance"}

----------------------------------------------------------------------------
(* calculatePatch                                                          *)

MaxPatchFreqSteps == 2

\* what parseFloat yields for patch-freq (MHz), patch-substrate-er and
\* patch-thickness (mm)
PatchFreqInputs == {NaN} \cup {Z(1200 * k) : k \in 0 .. MaxPatchFreqSteps}

PatchErInputs == {NaN, Z(1), R(44, 10), Z(16)}

PatchThicknessInputs == {NaN, Z(-1), R(16, 10)}

\* effectiveEr
PatchEffectiveEr(substrateEr, thicknessM) ==
    Add(Div(Add(substrateEr, Z(1)), Z(2)),
        Mul(Div(Sub(substrateEr, Z(1)), Z(2)),
            Div(Z(1), MathSqrt(Add(Z(1), Div(Mul(Z(12), thicknessM), R(1, 1000)))))))

\* width, and effectiveLength, which has the same formula
PatchWidth(freqHz, effectiveEr) ==
    Div(Z(SPEED_OF_LIGHT), Mul(Mul(Z(2), freqHz), MathSqrt(effectiveEr)))

PatchDeltaL(thicknessM, effectiveEr, widthOverH) ==
    Div(Mul(Mul(R(412, 1000), thicknessM),
            Mul(Add(effectiveEr, R(3, 10)), Add(widthOverH, R(264, 1000)))),
        Mul(Sub(effectiveEr, R(258, 1000)), Add(widthOverH, R(8, 10))))

PatchImpedance(substrateEr, aspect) ==
    Mul(Div(Mul(Z(90), Mul(substrateEr, substrateEr)), Sub(substrateEr, Z(1))),
        Mul(aspect, aspect))

PatchBandwidth(substrateEr, thicknessM, widthOverLength) ==
    Mul(Mul(Div(Mul(R(377, 100), Sub(substrateEr, Z(1))), Mul(substrateEr, substrateEr)),
            Mul(thicknessM, Z(1000))),
        widthOverLength)

PatchDirectivity == Div(Z(32400), Z(78 * 78))

PatchGain == Mul(Z(10), MathLog10(Mul(PatchDirectivity, R(85, 100))))

\* the rendered result
PatchResult(substrateEr, thickness, thicknessM, effectiveEr, width, deltaL, physicalLength) ==
    Return([kind |-> "result",
            gain |-> formatNumber(PatchGain, 1),
            bandwidth |->
                formatNumber(PatchBandwidth(substrateEr, thicknessM,
                                            Div(width, physicalLength)), 1),
            substrateEr |-> substrateEr,
            effectiveEr |-> formatNumber(effectiveEr, 2),
            aspect |-> formatNumber(Div(physicalLength, width), 2),
            thickness |-> formatNumber(thickness, 2),
            widthMm |-> formatNumber(Mul(width, Z(1000)), 2),
            lengthMm |-> formatNumber(Mul(physicalLength, Z(1000)), 2),
            areaMm2 |-> formatNumber(Mul(Mul(width, physicalLength), Canon(1, 1, 6)), 1),
            deltaLMm |-> formatNumber(Mul(deltaL, Z(1000)), 3),
            impedance |->
                formatNumber(PatchImpedance(substrateEr, Div(physicalLength, width)), 0),
            directivity |-> formatNumber(Mul(Z(10), MathLog10(PatchDirectivity)), 1),
            groundPlaneMm |->
                formatNumber(Mul(Add(MathMax(width, physicalLength),
                                     Mul(Z(6), thicknessM)), Z(1000)), 1),
            feedPointMm |->
                formatNumber(Div(Mul(physicalLength, Z(1000)), Z(3)), 1)])

\* physicalLength = effectiveLength - 2 * deltaL
PatchWithDeltaL(substrateEr, thickness, thicknessM, effectiveEr, width, deltaL) ==
    PatchResult(substrateEr, thickness, thicknessM, effectiveEr, width, deltaL,
                Sub(width, Mul(Z(2), deltaL)))

PatchWithWidth(substrateEr, thickness, thicknessM, effectiveEr, width) ==
    PatchWithDeltaL(substrateEr, thickness, thicknessM, effectiveEr, width,
                    PatchDeltaL(thicknessM, effectiveEr, Div(width, thicknessM)))

PatchWithEr(substrateEr, thickness, freqHz, thicknessM, effectiveEr) ==
    PatchWithWidth(substrateEr, thickness, thicknessM, effectiveEr,
                   PatchWidth(freqHz, effectiveEr))

\* convertUnits for the thickness has returned or thrown
PatchConverted(substrateEr, thickness, freqHz, conv) ==
    IF conv.threw THEN conv
    ELSE PatchWithEr(substrateEr, thickness, freqHz, conv.value,
                     PatchEffectiveEr(substrateEr, conv.value))

\* the try block of calculatePatch
PatchCompute(frequency, freqUnit, substrateEr, thickness, thicknessUnit) ==
    PatchConverted(substrateEr, thickness, Mul(frequency, FREQ_UNITS[freqUnit]),
                   convertUnits(thickness, thicknessUnit, "m", LENGTH_UNITS))

PatchInputs ==
    [frequency : PatchFreqInputs, substrateEr : PatchErInputs,
     thickness : PatchThicknessInputs]

\* what the try block yields on each input, evaluated once
PatchTry ==
    Tabulate([in \in PatchInputs |->
                 PatchCompute(in.frequency, "MHz", OrDefault(in.substrateEr, SUBSTRATE_ER),
                              OrDefault(in.thickness, SUBSTRATE_THICKNESS), "mm")])

calculatePatch ==
    \E in \in PatchInputs :
        IF ~validateInput1(in.frequency)
        THEN Rejects("calculatePatch", in, "patch-freq")
        ELSE IF ~validateInput(OrDefault(in.substrateEr, SUBSTRATE_ER), Z(1), Z(15))
        THEN Rejects("calculatePatch", in, "patch-substrate-er")
        ELSE Renders("calculatePatch", in, {"patch-freq", "patch-substrate-er"},
                     "patch-results", PatchTry[in], "rendered")

NextPatch == calculatePatch

SpecPatch == Init /\ [][NextPatch]_vars

\* the derived quantities the result reports
PatchReported(pane) ==
    {pane.effectiveEr, pane.widthMm, pane.lengthMm, pane.deltaLMm, pane.impedance,
     pane.bandwidth, pane.gain}

\* C10: for every input with frequency > 0, 1 <= er <= 15 and thickness > 0
\* (an empty er or thickness field standing for its default, 4.4 and 1.6 mm)
\* calculatePatch renders a result in which effective er, width, length,
\* delta L, input impedance, bandwidth and gain are all finite numbers; for
\* every other input it reports an error and renders no result.
C10_PatchResultCompleteOrError ==
    last.calc = "calculatePatch"
    => IF /\ validateInput1(last.in.frequency)
          /\ validateInput(OrDefault(last.in.substrateEr, SUBSTRATE_ER), Z(1), Z(15))
          /\ validateInput1(OrDefault(last.in.thickness, SUBSTRATE_THICKNESS))
       THEN /\ last.outcome = "rendered"
            /\ \A v \in PatchReported(panes["patch-results"]) : isFinite(v)
       ELSE last.outcome \in {"rejected", "error"}

----------------------------------------------------------------------------
(* The reflection utilities: gammaToVSWR, vswrToGamma, gammaToReturnLoss,  *)
(* returnLossToGamma, mismatchLoss                                         *)

MaxReflectionSteps == 4

MaxVswrCallHalves == 40

MaxReturnLossCallSteps == 20

\* a reflection coefficient too small to register next to 1
TinyGamma == Canon(1, 1, -17)

\* reflection coefficients a caller may pass: eighths from below 0 to above 1
ReflectionValues ==
    {NaN, TinyGamma} \cup {R(k, 8) : k \in -MaxReflectionSteps .. 8 + MaxReflectionSteps}

VswrValues == {NaN, Infinity} \cup {R(k, 2) : k \in 0 .. MaxVswrCallHalves}

ReturnLossValues == {NaN, Infinity} \cup {Z(k) : k \in -1 .. MaxReturnLossCallSteps}

gammaToVSWRCall ==
    \E gamma \in ReflectionValues :
        Calls("gammaToVSWR", [gamma |-> gamma], Return(gammaToVSWR(gamma)))

vswrToGammaCall ==
    \E vswr \in VswrValues :
        Calls("vswrToGamma", [vswr |-> vswr], Return(vswrToGamma(vswr)))

gammaToReturnLossCall ==
    \E gamma \in ReflectionValues :
        Calls("gammaToReturnLoss", [gamma |-> gamma], Return(gammaToReturnLoss(gamma)))

returnLossToGammaCall ==
    \E returnLoss \in ReturnLossValues :
        Calls("returnLossToGamma", [returnLoss |-> returnLoss],
              Return(returnLossToGamma(returnLoss)))

mismatchLossCall ==
    \E gamma \in ReflectionValues :
        Calls("mismatchLoss", [gamma |-> gamma], Return(mismatchLoss(gamma)))

NextReflection ==
    \/ gammaToVSWRCall
    \/ vswrToGammaCall
    \/ gammaToReturnLossCall
    \/ returnLossToGammaCall
    \/ mismatchLossCall

SpecReflection == Init /\ [][NextReflection]_vars

\* 0 <= gamma <= 1
InUnitInterval(gamma) == Ge(gamma, Z(0)) /\ Le(gamma, Z(1))

\* C12: gammaToVSWR(gamma) returns (1 + gamma) / (1 - gamma) for
\* 0 <= gamma < 1, returns +Infinity at gamma = 1 and signals an error for
\* every gamma > 1 and every gamma < 0; every value it returns is >= 1.
C12_GammaOutsideUnitIntervalIsAnError ==
    last.calc = "gammaToVSWR"
    => LET gamma == last.in.gamma
       IN  /\ (Ge(gamma, Z(0)) /\ Lt(gamma, Z(1)))
                 => /\ last.outcome = "returned"
                    /\ last.result.value = Div(Add(Z(1), gamma), Sub(Z(1), gamma))
           /\ Eq(gamma, Z(1))
                 => last.outcome = "returned" /\ last.result.value = Infinity
           /\ (Gt(gamma, Z(1)) \/ Lt(gamma, Z(0))) => last.outcome = "threw"
           /\ (last.outcome = "returned" /\ ~isNaN(gamma))
                 => Ge(last.result.value, Z(1))

\* the tolerance of a round trip: one part in a million
RoundTripTolerance == Canon(1, 1, -6)

\* x is y, or differs from it by at most the tolerance times max(1, |y|)
CloseTo(x, y) ==
    \/ (~isNaN(x) /\ x = y)
    \/ /\ isFinite(x) /\ isFinite(y)
       /\ Le(MathAbs(Sub(x, y)), Mul(RoundTripTolerance, MathMax(Z(1), MathAbs(y))))

GammaResolution == Canon(1, 1, -16)

\* the values of the five utilities at gamma = 0, gamma = 1 and at their
\* images
EndPointsAgree ==
    /\ last.calc = "gammaToVSWR"
          => /\ last.in.gamma = Z(0) => last.result.value = Z(1)
             /\ last.in.gamma = Z(1) => last.result.value = Infinity
    /\ last.calc = "gammaToReturnLoss"
          => /\ last.in.gamma = Z(0) => last.result.value = Infinity
             /\ last.in.gamma = Z(1) => last.result.value = Z(0)
    /\ last.calc = "mismatchLoss"
          => (last.in.gamma = Z(0) => last.result.value = Z(0))
    /\ last.calc = "returnLossToGamma"
          => /\ last.in.returnLoss = Infinity => last.result.value = Z(0)
             /\ last.in.returnLoss = Z(0) => last.result.value = Z(1)
    /\ last.calc = "vswrToGamma"
          => /\ last.in.vswr = Z(1) => last.result.value = Z(0)
             /\ last.in.vswr = Infinity => last.result.value = Z(1)

LinearTables ==
    {"FREQ_UNITS", "LENGTH_UNITS", "INDUCTANCE_UNITS", "CAPACITANCE_UNITS",
     "RESISTANCE_UNITS"}

\* a conversion of a positive value between two units of one linear table
LinearConversion ==
    /\ last.calc = "convertUnits"
    /\ last.in.table \in LinearTables
    /\ Gt(last.in.value, Z(0))
    /\ last.in.fromUnit \in DOMAIN UnitTables[last.in.table]
    /\ last.in.toUnit \in DOMAIN UnitTables[last.in.table]

\* the converted value converted back
ConvertedBack ==
    convertUnits(last.result.value, last.in.toUnit, last.in.fromUnit,
                 UnitTables[last.in.table])

----------------------------------------------------------------------------
(* getFrequencyBand and getNearestAmateurBand                              *)

\* CONSTANTS.BANDS in the order of its entries, limits in MHz
BANDS ==
    << [min |-> R(3, 100), max |-> R(3, 10), band |-> "LF"],
       [min |-> R(3, 10), max |-> Z(3), band |-> "MF"],
       [min |-> Z(3), max |-> Z(30), band |-> "HF"],
       [min |-> Z(30), max |-> Z(300), band |-> "VHF"],
       [min |-> Z(300), max |-> Z(3000), band |-> "UHF"],
       [min |-> Z(3000), max |-> Z(30000), band |-> "SHF"],
       [min |-> Z(30000), max |-> Z(300000), band |-> "EHF"] >>

\* CONSTANTS.AMATEUR_BANDS in the order of its entries, freq in MHz
AMATEUR_BANDS ==
    << [name |-> "160 meters", band |-> "160m", freq |-> R(18, 10)],
       [name |-> "80 meters", band |-> "80m", freq |-> R(35, 10)],
       [name |-> "40 meters", band |-> "40m", freq |-> Z(7)],
       [name |-> "20 meters", band |-> "20m", freq |-> Z(14)],
       [name |-> "15 meters", band |-> "15m", freq |-> Z(21)],
       [name |-> "10 meters", band |-> "10m", freq |-> Z(28)],
       [name |-> "6 meters", band |-> "6m", freq |-> Z(50)],
       [name |-> "2 meters", band |-> "2m", freq |-> Z(144)],
       [name |-> "70 centimeters", band |-> "70cm", freq |-> Z(440)],
       [name |-> "23 centimeters", band |-> "23cm", freq |-> Z(1296)] >>

\* the band test with the upper limit included
InBandClosed(freqMHz, range) == Ge(freqMHz, range.min) /\ Le(freqMHz, range.max)

\* freqMHz >= range.min && freqMHz < range.max
InBand(freqMHz, range) == Ge(freqMHz, range.min) /\ Lt(freqMHz, range.max)

\* the loop of getFrequencyBand from entry i on
RECURSIVE FirstBand(_, _)
FirstBand(freqMHz, i) ==
    IF i > Len(BANDS) THEN "Unknown"
    ELSE IF InBand(freqMHz, BANDS[i]) THEN BANDS[i].band
    ELSE FirstBand(freqMHz, i + 1)

\* getFrequencyBand(frequency), frequency in Hz
getFrequencyBand(frequency) == FirstBand(Div(frequency, Canon(1, 1, 6)), 1)

Null == [kind |-> "null"]

\* the comparison of the scan with a tie going to the later entry
CloserOrTied(difference, minDifference) == Le(difference, minDifference)

\* difference < minDifference
Closer(difference, minDifference) == Lt(difference, minDifference)

\* the loop of getNearestAmateurBand from entry i on
RECURSIVE NearestFrom(_, _, _, _)
NearestStep(freqMHz, i, closestBand, minDifference, difference) ==
    IF Closer(difference, minDifference)
    THEN NearestFrom(freqMHz, i + 1,
                     [name |-> AMATEUR_BANDS[i].name, band |-> AMATEUR_BANDS[i].band,
                      freq |-> AMATEUR_BANDS[i].freq, difference |-> difference],
                     difference)
    ELSE NearestFrom(freqMHz, i + 1, closestBand, minDifference)

NearestFrom(freqMHz, i, closestBand, minDifference) ==
    IF i > Len(AMATEUR_BANDS) THEN closestBand
    ELSE NearestStep(freqMHz, i, closestBand, minDifference,
                     MathAbs(Sub(freqMHz, AMATEUR_BANDS[i].freq)))

\* getNearestAmateurBand(frequency), frequency in Hz
getNearestAmateurBand(frequency) ==
    NearestFrom(Div(frequency, Canon(1, 1, 6)), 1, Null, Infinity)

MaxDecade == 11

MaxAmateurSteps == 100

\* frequencies in Hz at, just below and above 3 * 10^k Hz, the limits of the
\* bands
BandFrequencies ==
    {NaN, Infinity, Z(0), Z(-30000000)}
       \cup UNION {{Canon(29999999, 1, k - 7), Canon(3, 1, k), Canon(31, 1, k - 1),
                    Canon(1, 1, k), Canon(299, 1, k - 2)} : k \in 4 .. MaxDecade}

\* frequencies in Hz in steps of 0.35 MHz, and up to the highest bands
AmateurFrequencies ==
    {NaN, Infinity}
       \cup {Z(350000 * k) : k \in -1 .. MaxAmateurSteps}
       \cup {Canon(f, 1, 6) : f \in {39, 50, 97, 144, 292, 440, 868, 1296, 2000}}

getFrequencyBandCall ==
    \E frequency \in BandFrequencies :
        Calls("getFrequencyBand", [frequency |-> frequency],
              Return(getFrequencyBand(frequency)))

getNearestAmateurBandCall ==
    \E frequency \in AmateurFrequencies :
        Calls("getNearestAmateurBand", [frequency |-> frequency],
              Return(getNearestAmateurBand(frequency)))

NextBands == getFrequencyBandCall \/ getNearestAmateurBandCall

SpecBands == Init /\ [][NextBands]_vars

\* the entries of BANDS whose range [min, max) in Hz holds the frequency
BandsHolding(frequency) ==
    {i \in DOMAIN BANDS :
        /\ Ge(frequency, Mul(BANDS[i].min, Canon(1, 1, 6)))
        /\ Lt(frequency, Mul(BANDS[i].max, Canon(1, 1, 6)))}

\* C16: every frequency in [0.03 MHz, 300000 MHz) lies in the half-open
\* range [min, max) of exactly one band and getFrequencyBand returns that
\* band (VHF at exactly 30 MHz, HF at exactly 3 MHz); every frequency below
\* 0.03 MHz, at or above 300000 MHz, or negative, returns 'Unknown'.
C16_BandsPartitionTheSpectrum ==
    (last.calc = "getFrequencyBand" /\ ~isNaN(last.in.frequency))
    => LET frequency == last.in.frequency
           holding == BandsHolding(frequency)
       IN  /\ (Ge(frequency, Canon(3, 1, 4)) /\ Lt(frequency, Canon(3, 1, 11)))
                 => /\ Cardinality(holding) = 1
                    /\ \A i \in holding : last.result.value = BANDS[i].band
           /\ (Lt(frequency, Canon(3, 1, 4)) \/ Ge(frequency, Canon(3, 1, 11)))
                 => last.result.value = "Unknown"
           /\ frequency = Canon(3, 1, 7) => last.result.value = "VHF"
           /\ frequency = Canon(3, 1, 6) => last.result.value = "HF"

\* exactly 30 MHz has been looked up and VHF returned
C16_Witness_ThirtyMHzIsVHF ==
    /\ last.calc = "getFrequencyBand" /\ last.in.frequency = Canon(3, 1, 7)
    /\ last.result.value = "VHF"

\* |frequency in MHz - centre frequency of entry i|
AmateurDistance(frequency, i) ==
    MathAbs(Sub(Div(frequency, Canon(1, 1, 6)), AMATEUR_BANDS[i].freq))

\* C17: for every finite frequency getNearestAmateurBand returns the amateur
\* band whose centre frequency has the least absolute distance in MHz, of
\* two bands at the same distance the one earlier in the table (40m at
\* 10.5 MHz), and the returned difference is that least distance.
C17_NearestAmateurBandFirstOfTheClosest ==
    (last.calc = "getNearestAmateurBand" /\ isFinite(last.in.frequency))
    => LET frequency == last.in.frequency
           closest == last.result.value
       IN  /\ closest # Null
           /\ \E i \in DOMAIN AMATEUR_BANDS :
                 /\ closest.band = AMATEUR_BANDS[i].band
                 /\ closest.freq = AMATEUR_BANDS[i].freq
                 /\ closest.difference = AmateurDistance(frequency, i)
                 /\ \A j \in DOMAIN AMATEUR_BANDS :
                       /\ Le(closest.difference, AmateurDistance(frequency, j))
                       /\ j < i => Lt(closest.difference, AmateurDistance(frequency, j))
           /\ frequency = Canon(105, 1, 5) => closest.band = "40m"

\* 10.5 MHz, as far from 7 MHz as from 14 MHz, has been looked up
C17_Witness_TieGoesToEarlierBand ==
    /\ last.calc = "getNearestAmateurBand" /\ last.in.frequency = Canon(105, 1, 5)
    /\ last.result.value.band = "40m"
    /\ last.result.value.difference = R(35, 10)

\* the text of a component of the given type made from the reactance x:
\* L = |x| / omega, C = 1 / (|x| * omega)
ComponentFrom(type, x, omega) ==
    formatComponent([value |-> IF type = "L" THEN Div(MathAbs(x), omega)
                               ELSE Div(Z(1), Mul(MathAbs(x), omega)),
                     type |-> type])

\* the two items of the pane show the reactances xp and xs and components
\* of swapped types made from them
VariantsFromReactances(pane, xp, xs, omega) ==
    /\ Len(pane.networks) = 2
    /\ pane.networks[1].xParallel = pane.networks[2].xParallel
    /\ pane.networks[1].xSeries = pane.networks[2].xSeries
    /\ pane.networks[1].parallel.type # pane.networks[2].parallel.type
    /\ pane.networks[1].series.type # pane.networks[2].series.type
    /\ \A i \in 1 .. 2 :
          /\ {pane.networks[i].parallel.type, pane.networks[i].series.type} = {"L", "C"}
          /\ pane.networks[i].xParallel = formatNumber(xp, 1)
          /\ pane.networks[i].xSeries = formatNumber(xs, 1)
          /\ pane.networks[i].parallel.text =
                ComponentFrom(pane.networks[i].parallel.type, xp, omega)
          /\ pane.networks[i].series.text =
                ComponentFrom(pane.networks[i].series.type, xs, omega)

\* the Q the inputs lead to: the target Q if one is given, else
\* sqrt(rHigh / rLow - 1)
QInUse(rs, rl, targetQ) ==
    IF Truthy(targetQ) /\ validateInput1(targetQ) THEN targetQ
    ELSE MathSqrt(Sub(Div(MathMax(rs, rl), MathMin(rs, rl)), Z(1)))

VariantsFromQ(pane, rs, rl, q, freqHz) ==
    VariantsFromReactances(pane, Div(MathMax(rs, rl), q), Mul(q, MathMin(rs, rl)),
                           Mul(Mul(Z(2), MathPI), freqHz))

\* C18: the two L-network variants of a result report the same X_parallel
\* and X_series and differ by swapped component types (parallel C with
\* series L in one, parallel L with series C in the other); every component
\* is made from the same reactance, L = X / omega and C = 1 / (X * omega);
\* for Rs = 50, Rl = 200 and no Q override, Q = sqrt(3) (shown as 1.73).
C18_VariantsShareReactancesAndSwapTypes ==
    (MatchingRan /\ last.outcome = "rendered")
    => /\ VariantsFromQ(panes["matching-results"], OrDefault(last.in.rs, Z(50)),
                        last.in.rl,
                        QInUse(OrDefault(last.in.rs, Z(50)), last.in.rl, last.in.targetQ),
                        Mul(last.in.frequency, FREQ_UNITS["MHz"]))
       /\ (OrDefault(last.in.rs, Z(50)) = Z(50) /\ last.in.rl = Z(200)
              /\ ~Truthy(last.in.targetQ))
             => /\ panes["matching-results"].qActual = formatNumber(MathSqrt(Z(3)), 2)
                /\ panes["matching-results"].qActual = R(173, 100)

\* 50 ohm has been matched to 200 ohm without a target Q
C18_Witness_FiftyToTwoHundred ==
    /\ MatchingRan /\ last.outcome = "rendered"
    /\ isNaN(last.in.rs) /\ last.in.rl = Z(200) /\ isNaN(last.in.targetQ)
    /\ panes["matching-results"].networks[1].parallel.type = "L"
    /\ panes["matching-results"].networks[2].parallel.type = "C"
    /\ panes["matching-results"].qActual = R(173, 100)

----------------------------------------------------------------------------
(* calculateLinkBudget                                                     *)

\* freeSpacePathLoss(frequency, distance): Hz and metres in, dB out
freeSpacePathLoss(frequency, distance) ==
    Add(Add(R(3244, 100), Mul(Z(20), MathLog10(Div(frequency, Z(1000000))))),
        Mul(Z(20), MathLog10(Div(distance, Z(1000)))))

\* the receiver sensitivities of the margin table, dBm
Sensitivities ==
    [mode \in {"SSB/CW", "FM Narrow", "FM Wide", "Digital (1200 bps)",
               "Digital (9600 bps)", "WiFi 802.11g"} |->
        CASE mode = "SSB/CW" -> Z(-120) [] mode = "FM Narrow" -> Z(-110)
          [] mode = "FM Wide" -> Z(-105) [] mode = "Digital (1200 bps)" -> Z(-115)
          [] mode = "Digital (9600 bps)" -> Z(-105) [] mode = "WiFi 802.11g" -> Z(-85)]

\* the status column of a margin row
LinkMarginStatus(margin) ==
    IF Gt(margin, Z(10)) THEN "Excellent"
    ELSE IF Gt(margin, Z(6)) THEN "Good"
    ELSE IF Gt(margin, Z(3)) THEN "Fair"
    ELSE IF Gt(margin, Z(0)) THEN "Marginal"
    ELSE "Insufficient"

LinkMarginRow(margin) ==
    [margin |-> formatNumber(margin, 1), status |-> LinkMarginStatus(margin)]

\* margins: one row for each mode of the sensitivity table
LinkMargins(signalDbm) ==
    [mode \in DOMAIN Sensitivities |-> LinkMarginRow(Sub(signalDbm, Sensitivities[mode]))]

\* the lines of the rendered budget
LinkBudgetResult(txPowerDbm, eirpDbm, fsplDb, rxPowerDbm, signalDbm) ==
    Return([kind |-> "result",
            txPowerDbm |-> formatNumber(txPowerDbm, 1),
            eirp |-> formatNumber(eirpDbm, 1),
            fspl |-> formatNumber(fsplDb, 1),
            rxPower |-> formatNumber(rxPowerDbm, 1),
            signal |-> formatNumber(signalDbm, 1),
            margins |-> LinkMargins(signalDbm)])

LinkBudgetFromRx(txPowerDbm, eirpDbm, fsplDb, rxPowerDbm, rxGain) ==
    LinkBudgetResult(txPowerDbm, eirpDbm, fsplDb, rxPowerDbm, Add(rxPowerDbm, rxGain))

LinkBudgetFromEirp(txPowerDbm, eirpDbm, fsplDb, in) ==
    LinkBudgetFromRx(txPowerDbm, eirpDbm, fsplDb,
                     Sub(Sub(Sub(eirpDbm, fsplDb), in.rxLoss), in.otherLoss), in.rxGain)

LinkBudgetFromPower(txPowerDbm, fsplDb, in) ==
    LinkBudgetFromEirp(txPowerDbm, Sub(Add(txPowerDbm, in.txGain), in.txLoss), fsplDb, in)

\* Two scripts declare a global function convertPower: the utility
\* convertPower(value, fromUnit, toUnit) and the handler convertPower() of
\* the power converter, which reads the power-input field, marks it when it
\* holds no valid power and returns nothing.  The page keeps the declaration
\* of the script it loads last, so a call convertPower(txPower, unit, 'dBm')
\* reaches either of them.
ConvertPowerBindings == {"utility", "handler"}

\* what the call convertPower(value, fromUnit, toUnit) returns; the power
\* converter's own field is empty
convertPowerBound(binding, value, fromUnit, toUnit) ==
    IF binding = "utility" THEN convertPowerUtil(value, fromUnit, toUnit)
    ELSE Return(Undefined)

LinkBudgetWithPower(txPowerDbm, distanceM, in) ==
    IF txPowerDbm.threw THEN txPowerDbm
    ELSE LinkBudgetFromPower(ToNumber(txPowerDbm.value),
                             freeSpacePathLoss(Mul(in.frequency, FREQ_UNITS[in.freqUnit]),
                                               distanceM),
                             in)

LinkBudgetWithDistance(distanceM, in) ==
    IF distanceM.threw THEN distanceM
    ELSE LinkBudgetWithPower(convertPowerBound(in.convertPower, in.txPower,
                                               in.txPowerUnit, "dBm"),
                             distanceM.value, in)

\* the try block of calculateLinkBudget
LinkBudgetCompute(in) ==
    LinkBudgetWithDistance(convertUnits(in.distance, in.distanceUnit, "m", LENGTH_UNITS), in)

MaxDistanceDecade == 2

\* a 100 MHz link over 10 km, 10 mW into 3 dBi with 1 dB of line loss at each
\* end, 2 dBi at the receiver
LinkBudgetBase ==
    [frequency |-> Z(100), freqUnit |-> "MHz", convertPower |-> "utility", distance |-> Z(10),
     distanceUnit |-> "km", rxGain |-> Z(2), rxLoss |-> Z(1), otherLoss |-> Z(0),
     txGain |-> Z(3), txLoss |-> Z(1), txPower |-> Z(10), txPowerUnit |-> "mW"]

\* the fields after parseFloat and `|| 0`: an empty gain or loss field is 0
LinkBudgetValidInputs ==
    {[LinkBudgetBase EXCEPT !.distance = distance, !.txPower = txPower,
                            !.txPowerUnit = txPowerUnit, !.txGain = OrDefault(txGain, Z(0)),
                            !.otherLoss = OrDefault(otherLoss, Z(0)),
                            !.convertPower = binding] :
        distance \in {Canon(1, 1, k) : k \in 0 .. MaxDistanceDecade},
        txPower \in {Z(10), Z(1000)}, txPowerUnit \in {"mW", "dBm"},
        txGain \in {NaN, Z(3)}, otherLoss \in {NaN, Z(3)},
        binding \in ConvertPowerBindings}

LinkBudgetInputs ==
    LinkBudgetValidInputs
    \cup {[LinkBudgetBase EXCEPT !.frequency = NaN], [LinkBudgetBase EXCEPT !.distance = NaN],
          [LinkBudgetBase EXCEPT !.txPower = NaN], [LinkBudgetBase EXCEPT !.txPower = Z(0)]}

LinkBudgetTry == Tabulate([in \in LinkBudgetInputs |-> LinkBudgetCompute(in)])

\* the fields the handler binding of convertPower marks while the budget is
\* computed
LinkBudgetMarks(in) == IF in.convertPower = "handler" THEN {"power-input"} ELSE {}

calculateLinkBudget ==
    \E in \in LinkBudgetInputs :
        IF ~validateInput1(in.frequency) THEN Rejects("calculateLinkBudget", in, "lb-freq")
        ELSE IF ~validateInput1(in.distance)
             THEN Rejects("calculateLinkBudget", in, "lb-distance")
        ELSE IF ~validateInput1(in.txPower)
             THEN Rejects("calculateLinkBudget", in, "lb-tx-power")
        ELSE /\ errors' = clearErrors(errors, {"lb-freq", "lb-distance", "lb-tx-power"})
                              \cup LinkBudgetMarks(in)
             /\ panes' = [panes EXCEPT !["lb-results"] =
                             IF LinkBudgetTry[in].threw
                             THEN ErrorBlock(LinkBudgetTry[in].message)
                             ELSE LinkBudgetTry[in].value]
             /\ last' = [calc |-> "calculateLinkBudget",
                         outcome |-> IF LinkBudgetTry[in].threw THEN "error" ELSE "rendered",
                         marked |-> LinkBudgetMarks(in),
                         in |-> in]
             /\ UNCHANGED ui

NextLinkBudget == calculateLinkBudget

SpecLinkBudget == Init /\ [][NextLinkBudget]_vars

\* the budget the formulas give for txPowerDbm and the entered gains and
\* losses
BudgetEirp(txPowerDbm, in) == Sub(Add(txPowerDbm, in.txGain), in.txLoss)

BudgetRxPower(eirp, fspl, in) == Sub(Sub(Sub(eirp, fspl), in.rxLoss), in.otherLoss)

BudgetStatus(margin) ==
    IF Gt(margin, Z(10)) THEN "Excellent" ELSE IF Gt(margin, Z(6)) THEN "Good"
    ELSE IF Gt(margin, Z(3)) THEN "Fair" ELSE IF Gt(margin, Z(0)) THEN "Marginal"
    ELSE "Insufficient"

BudgetShown(pane, eirp, rxPower, signal) ==
    /\ pane.eirp = formatNumber(eirp, 1)
    /\ pane.rxPower = formatNumber(rxPower, 1)
    /\ pane.signal = formatNumber(signal, 1)
    /\ \A mode \in DOMAIN Sensitivities :
          /\ pane.margins[mode].margin = formatNumber(Sub(signal, Sensitivities[mode]), 1)
          /\ pane.margins[mode].status = BudgetStatus(Sub(signal, Sensitivities[mode]))

BudgetFromRx(pane, eirp, rxPower, in) ==
    BudgetShown(pane, eirp, rxPower, Add(rxPower, in.rxGain))

BudgetFromEirp(pane, eirp, fspl, in) ==
    BudgetFromRx(pane, eirp, BudgetRxPower(eirp, fspl, in), in)

BudgetFromPower(pane, txPowerDbm, fspl, in) ==
    /\ pane.txPowerDbm = formatNumber(txPowerDbm, 1)
    /\ BudgetFromEirp(pane, BudgetEirp(txPowerDbm, in), fspl, in)

\* the entered TX power in dBm, by the formulas of the power units
EnteredPowerDbm(in) ==
    IF in.txPowerUnit = "dBm" THEN in.txPower
    ELSE WATTS_TO_DBM(convertPowerToWatts(in.txPower, in.txPowerUnit))

\* the path loss of the entered frequency (MHz) and distance (km)
EnteredPathLoss(in) ==
    freeSpacePathLoss(Mul(in.frequency, Z(1000000)), Mul(in.distance, Z(1000)))

\* C19: a link budget that is rendered shows EIRP = txPowerDbm + txGain -
\* txLoss, RxPower = EIRP - FSPL - rxLoss - otherLoss, signal = RxPower +
\* rxGain and, for each mode of the sensitivity table, margin = signal -
\* sensitivity with the status Excellent above 10, Good above 6, Fair above
\* 3, Marginal above 0 and Insufficient otherwise, where txPowerDbm is the
\* entered TX power converted to dBm from its selected unit.
C19_LinkBudgetFollowsTheEnteredPower ==
    (last.calc = "calculateLinkBudget" /\ last.outcome = "rendered")
    => BudgetFromPower(panes["lb-results"], EnteredPowerDbm(last.in),
                       EnteredPathLoss(last.in), last.in)

\* the same budget when convertPower is the utility
LinkBudgetOfTheUtility ==
    (/\ last.calc = "calculateLinkBudget" /\ last.outcome = "rendered"
     /\ last.in.convertPower = "utility")
    => BudgetFromPower(panes["lb-results"], EnteredPowerDbm(last.in),
                       EnteredPathLoss(last.in), last.in)

----------------------------------------------------------------------------
(* calculateYagi                                                           *)

REFLECTOR_RATIO == R(105, 100)

DIRECTOR_RATIO == R(9, 10)

TYPICAL_SPACING == R(15, 100)

GAIN_PER_DIRECTOR == R(12, 10)

BASE_GAIN == R(214, 100)

\* the integer an integer-valued number denotes
IntOf(x) == x.n * 10 ^ x.e

\* elements < 3 || elements > 20
YagiCountOutside(elements) == Lt(elements, Z(3)) \/ Gt(elements, Z(20))

\* the boom: the entered length when there is a valid one, else the typical
\* spacing between the elements
YagiBoomLength(in, elements, wavelength) ==
    IF Truthy(in.boomLength) /\ validateInput1(in.boomLength)
    THEN IF in.boomUnit = "wavelength" THEN Return(Mul(in.boomLength, wavelength))
         ELSE convertUnits(in.boomLength, in.boomUnit, "m", LENGTH_UNITS)
    ELSE Return(Mul(Mul(Sub(elements, Z(1)), TYPICAL_SPACING), wavelength))

\* the layout list: one line for each director
YagiDirectors(directorsCount, elementSpacing) ==
    [i \in 1 .. directorsCount |-> formatNumber(Mul(elementSpacing, Z(i + 1)), 3)]

\* the rendered result
YagiResult(drivenElementLength, directorsCount, approximateGain, elementSpacing) ==
    Return([kind |-> "result",
            gain |-> formatNumber(approximateGain, 1),
            driven |-> formatNumber(drivenElementLength, 3),
            reflector |-> formatNumber(Mul(drivenElementLength, REFLECTOR_RATIO), 3),
            director |-> formatNumber(Mul(drivenElementLength, DIRECTOR_RATIO), 3),
            spacing |-> formatNumber(elementSpacing, 3),
            frontToBack |-> formatNumber(Add(Z(15), Mul(Z(directorsCount), Z(2))), 0),
            directors |-> YagiDirectors(directorsCount, elementSpacing)])

YagiWithBoom(actualBoomLength, elements, wavelength) ==
    IF actualBoomLength.threw THEN actualBoomLength
    ELSE YagiResult(Mul(Div(wavelength, Z(2)), DIPOLE_FACTOR),
                    IntOf(elements) - 2,
                    Add(BASE_GAIN, Mul(Z(IntOf(elements) - 2), GAIN_PER_DIRECTOR)),
                    Div(actualBoomLength.value, Sub(elements, Z(1))))

YagiWithWavelength(in, elements, wavelength) ==
    YagiWithBoom(YagiBoomLength(in, elements, wavelength), elements, wavelength)

\* the try block of calculateYagi
YagiCompute(in, elements) ==
    YagiWithWavelength(in, elements,
                       frequencyToWavelength(in.frequency, in.freqUnit, VELOCITY_FACTOR))

MaxYagiElements == 21

\* what the yagi-elements field holds: nothing, or a whole number
YagiElementInputs == {NaN} \cup {Z(k) : k \in -1 .. MaxYagiElements}

YagiBoomInputs ==
    {[boomLength |-> NaN, boomUnit |-> "m"], [boomLength |-> Z(2), boomUnit |-> "m"],
     [boomLength |-> Z(1), boomUnit |-> "wavelength"]}

YagiInputs ==
    {[frequency |-> Z(144), freqUnit |-> "MHz", elements |-> elements,
      boomLength |-> boom.boomLength, boomUnit |-> boom.boomUnit] :
        elements \in YagiElementInputs, boom \in YagiBoomInputs}
    \cup {[frequency |-> NaN, freqUnit |-> "MHz", elements |-> elements,
           boomLength |-> NaN, boomUnit |-> "m"] : elements \in {NaN, Z(0), Z(5), Z(21)}}

\* parseInt(field) || 5
YagiElements(in) == OrDefault(in.elements, Z(5))

YagiTry == Tabulate([in \in YagiInputs |-> YagiCompute(in, YagiElements(in))])

\* the handler on the field contents `in`
calculateYagiOn(in) ==
    IF ~validateInput1(in.frequency) THEN RejectsOnPage("calculateYagi", in, "yagi-freq")
    ELSE IF YagiCountOutside(YagiElements(in))
         THEN RejectsOnPage("calculateYagi", in, "yagi-elements")
    ELSE RendersOnPage("calculateYagi", in, {"yagi-freq", "yagi-elements"},
                       "yagi-results", YagiTry[in], "rendered")

calculateYagi == \E in \in YagiInputs : calculateYagiOn(in) /\ UNCHANGED ui

NextYagi == calculateYagi

SpecYagi == Init /\ [][NextYagi]_vars

\* the handler ran with a valid frequency and an entered count
YagiCountEntered ==
    /\ last.calc = "calculateYagi"
    /\ validateInput1(last.in.frequency)
    /\ isFinite(last.in.elements)

EnteredCountInRange == Ge(last.in.elements, Z(3)) /\ Le(last.in.elements, Z(20))

\* n - 2 directors and a gain of 2.14 + 1.2 (n - 2) dBi
YagiLaidOutFor(pane, n) ==
    /\ pane.kind = "result"
    /\ Len(pane.directors) = n - 2
    /\ pane.gain = formatNumber(R(214 + 120 * (n - 2), 100), 1)

\* C20: with a valid frequency, an entered element count n outside 3..20 is
\* rejected with an error on the yagi-elements field and no result is
\* rendered, and for an entered n in 3..20 the result lays out exactly n - 2
\* directors and shows the gain 2.14 + 1.2 (n - 2) dBi.
C20_YagiCountInRangeOrRejected ==
    YagiCountEntered
    => IF EnteredCountInRange
       THEN /\ last.outcome = "rendered"
            /\ YagiLaidOutFor(panes["yagi-results"], IntOf(last.in.elements))
       ELSE last.outcome = "rejected" /\ last.marked = {"yagi-elements"}

\* the same for every entered count but 0
YagiNonZeroCountInRangeOrRejected ==
    (YagiCountEntered /\ last.in.elements # Z(0))
    => IF EnteredCountInRange
       THEN /\ last.outcome = "rendered"
            /\ YagiLaidOutFor(panes["yagi-results"], IntOf(last.in.elements))
       ELSE last.outcome = "rejected" /\ last.marked = {"yagi-elements"}

----------------------------------------------------------------------------
(* convertPower(): the handler of the power converter, and the calls that  *)
(* reach it                                                                *)

\* the frames the call stack holds before a call throws RangeError
MaxStackDepth == 3

\* the five calls convertPower(power, inputUnit, unit) in the try block
PowerHandlerCalls == 5

PowerHandlerInputs == [power : {NaN, Z(10)}, inputUnit : {"W", "dBm"}]

\* an argument that was not passed
NotPassed == "undefined"

\* the list a frame renders from the five values its calls returned
PowerHandlerPane(watts, mW, kW, dBm, dBW) ==
    [mW |-> formatNumber(mW, 3), kW |-> formatNumber(kW, 9), dBm |-> formatNumber(dBm, 2),
     dBW |-> formatNumber(dBW, 2), watts |-> formatNumber(watts, 6), kind |-> "result"]

\* a frame whose five calls reached the handler got undefined from each
PowerHandlerPaneOfNothing ==
    PowerHandlerPane(Undefined, Undefined, Undefined, Undefined, Undefined)

\* the stack after the call of the innermost frame returned: that frame
\* goes on to its next call, or has made all five, renders and returns
RECURSIVE PowerHandlerUnwind(_)
PowerHandlerUnwind(stack) ==
    IF stack = <<>> THEN <<>>
    ELSE IF stack[Len(stack)] < PowerHandlerCalls
         THEN [stack EXCEPT ![Len(stack)] = @ + 1]
    ELSE PowerHandlerUnwind(SubSeq(stack, 1, Len(stack) - 1))

\* the stack and the pane after the innermost frame's call overflowed the
\* stack: its catch clause renders the error and the frame returns
PowerHandlerOverflow(stack) ==
    [pane |-> IF Len(stack) > 1 /\ stack[Len(stack) - 1] = PowerHandlerCalls
              THEN PowerHandlerPaneOfNothing
              ELSE ErrorBlock("Maximum call stack size exceeded"),
     stack |-> PowerHandlerUnwind(SubSeq(stack, 1, Len(stack) - 1))]

PowerHandlerRunning == last.outcome = "running"

\* the calculator getCalculatorForInput has for the power-input field is
\* called with no argument
powerInputCalculator ==
    /\ ~PowerHandlerRunning
    /\ \E binding \in ConvertPowerBindings, in \in PowerHandlerInputs :
        IF binding = "utility"
        THEN Calls("powerInputCalculator", in @@ [binding |-> binding],
                   convertPowerUtil(Undefined, NotPassed, NotPassed))
        ELSE IF ~validateInput1(in.power)
             THEN Rejects("powerInputCalculator", in @@ [binding |-> binding], "power-input")
        ELSE /\ errors' = clearErrors(errors, {"power-input"})
             /\ panes' = panes
             /\ last' = [calc |-> "powerInputCalculator", outcome |-> "running",
                         marked |-> {}, in |-> in @@ [binding |-> binding], stack |-> <<1>>]
             /\ UNCHANGED ui

\* the handler's call convertPower(power, inputUnit, unit) enters the
\* handler again, which reads the same valid field and calls in its turn,
\* until the stack is full
convertPowerReenters ==
    /\ PowerHandlerRunning
    /\ errors' = errors
    /\ UNCHANGED ui
    /\ IF Len(last.stack) < MaxStackDepth
       THEN /\ panes' = panes
            /\ last' = [last EXCEPT !.stack = Append(@, 1)]
       ELSE /\ panes' = [panes EXCEPT !["power-results"] =
                            PowerHandlerOverflow(last.stack).pane]
            /\ last' = [last EXCEPT
                           !.stack = PowerHandlerOverflow(last.stack).stack,
                           !.outcome = IF PowerHandlerOverflow(last.stack).stack = <<>>
                                       THEN "rendered" ELSE "running"]

ThreeArgumentInputs ==
    [value : {Z(10), Z(40)}, fromUnit : {"W", "dBm"}, toUnit : {"W", "dBm"},
     binding : ConvertPowerBindings]

\* convertPower(value, fromUnit, toUnit) as calculateLinkBudget and
\* calculateFieldStrength call it, the power-input field being empty
convertPowerFromCalculator ==
    /\ ~PowerHandlerRunning
    /\ UNCHANGED ui
    /\ \E in \in ThreeArgumentInputs :
        /\ errors' = errors \cup (IF in.binding = "handler" THEN {"power-input"} ELSE {})
        /\ panes' = panes
        /\ last' = [calc |-> "convertPower", outcome |-> "returned",
                    marked |-> IF in.binding = "handler" THEN {"power-input"} ELSE {},
                    in |-> in,
                    result |-> convertPowerBound(in.binding, in.value, in.fromUnit, in.toUnit)]

NextPowerInput == powerInputCalculator \/ convertPowerReenters \/ convertPowerFromCalculator

SpecPowerInput == Init /\ [][NextPowerInput]_vars

\* the five conversions of the utility, as the power converter lists them
PowerConvertedBy(power, inputUnit) ==
    PowerHandlerPane(convertPowerUtil(power, inputUnit, "W").value,
                     convertPowerUtil(power, inputUnit, "mW").value,
                     convertPowerUtil(power, inputUnit, "kW").value,
                     convertPowerUtil(power, inputUnit, "dBm").value,
                     convertPowerUtil(power, inputUnit, "dBW").value)

\* C21: the calculator of the power-input field, called with no argument on
\* a valid power, ends with the power converted to W, mW, kW, dBm and dBW
\* in the result pane, and every call convertPower(value, fromUnit, toUnit)
\* of another calculator returns the conversion of the utility.
C21_BothConvertPowersWork ==
    /\ (/\ last.calc = "powerInputCalculator"
        /\ validateInput1(last.in.power)
        /\ ~PowerHandlerRunning)
       => panes["power-results"] = PowerConvertedBy(last.in.power, last.in.inputUnit)
    /\ last.calc = "convertPower"
       => last.result = convertPowerUtil(last.in.value, last.in.fromUnit, last.in.toUnit)

\* with the utility declared last, the three-argument calls convert
ThreeArgumentCallsOfTheUtility ==
    (last.calc = "convertPower" /\ last.in.binding = "utility")
    => last.result = convertPowerUtil(last.in.value, last.in.fromUnit, last.in.toUnit)

\* the handler that entered itself ends with nothing converted
PowerHandlerEndsWithNothing ==
    (/\ last.calc = "powerInputCalculator" /\ last.outcome = "rendered")
    => panes["power-results"] = PowerHandlerPaneOfNothing

----------------------------------------------------------------------------
(* calculateLoop                                                           *)

LoopTypes == {"small", "large", "quad"}

LoopShapes == {"circular", "square", "rectangular"}

\* the circumference of each loop type, in wavelengths
LoopCircumference(loopType, wavelength) ==
    CASE loopType = "small" -> Mul(wavelength, R(8, 100))
      [] loopType = "large" -> Mul(wavelength, R(1005, 1000))
      [] loopType = "quad" -> Mul(wavelength, Z(2))

Square(x) == Mul(x, x)

\* the radiation resistance: Wheeler's formula for the small loop
LoopRadiationResistance(loopType, circumference, wavelength) ==
    CASE loopType = "small" -> Mul(Z(31171), Square(Square(Div(circumference, wavelength))))
      [] loopType = "large" -> Z(115)
      [] loopType = "quad" -> Z(50)

LoopGain(loopType) ==
    CASE loopType = "small" -> R(-176, 100)
      [] loopType = "large" -> R(21, 10)
      [] loopType = "quad" -> R(31, 10)

\* the dimension lines of the result, by shape
LoopDimensions(shape, circumference) ==
    CASE shape = "circular" ->
            [diameter |-> formatNumber(Div(circumference, MathPI), 3),
             radius |-> formatNumber(Div(Div(circumference, MathPI), Z(2)), 3)]
      [] shape = "square" ->
            [sideLength |-> formatNumber(Div(circumference, Z(4)), 3),
             diagonal |-> formatNumber(Mul(Div(circumference, Z(4)), MathSqrt(Z(2))), 3)]
      [] shape = "rectangular" ->
            [longSide |-> formatNumber(Div(circumference, Z(6)), 3),
             shortSide |-> formatNumber(Div(circumference, Z(12)), 3)]

\* the rendered result
LoopResult(in, circumference, wavelength) ==
    Return([kind |-> "result",
            gain |-> formatNumber(LoopGain(in.loopType), 1),
            circumference |-> formatNumber(circumference, 3),
            dimensions |-> LoopDimensions(in.shape, circumference),
            radiationResistance |->
                formatNumber(LoopRadiationResistance(in.loopType, circumference, wavelength), 2)])

LoopWithWavelength(in, wavelength) ==
    LoopResult(in, LoopCircumference(in.loopType, wavelength), wavelength)

\* the try block of calculateLoop
LoopCompute(in) ==
    LoopWithWavelength(in, frequencyToWavelength(in.frequency, in.freqUnit, VELOCITY_FACTOR))

MaxLoopFreqSteps == 12

\* what the loop-freq field holds: nothing, 0, or 1 ... MHz
LoopInputs ==
    [frequency : {NaN} \cup {Z(k) : k \in 0 .. MaxLoopFreqSteps}, freqUnit : {"MHz"},
     loopType : LoopTypes, shape : LoopShapes]

LoopTry == Tabulate([in \in LoopInputs |-> LoopCompute(in)])

\* the handler on the field contents `in`
calculateLoopOn(in) ==
    IF ~validateInput1(in.frequency) THEN RejectsOnPage("calculateLoop", in, "loop-freq")
    ELSE RendersOnPage("calculateLoop", in, {"loop-freq"}, "loop-results", LoopTry[in],
                       "rendered")

calculateLoop == \E in \in LoopInputs : calculateLoopOn(in) /\ UNCHANGED ui

NextLoop == calculateLoop

SpecLoop == Init /\ [][NextLoop]_vars

\* what the rounding of the printed lengths to a millimetre allows
LoopPrintTolerance == R(5, 1000)

Within(x, y, tolerance) ==
    isFinite(x) /\ isFinite(y) /\ Le(MathAbs(Sub(x, y)), tolerance)

\* the perimeter of the loop the printed dimensions describe
LoopPerimeter(shape, dimensions) ==
    CASE shape = "circular" -> Mul(MathPI, dimensions.diameter)
      [] shape = "square" -> Mul(Z(4), dimensions.sideLength)
      [] shape = "rectangular" -> Mul(Z(2), Add(dimensions.longSide, dimensions.shortSide))

LoopRendered == last.calc = "calculateLoop" /\ last.outcome = "rendered"

\* C27: for every loop type and shape the printed dimensions describe a loop
\* whose perimeter is the printed circumference (to the millimetres the
\* printing keeps): pi * diameter for circular, 4 * sideLength for square,
\* 2 * (longSide + shortSide) with longSide = 2 * shortSide for rectangular.
C27_LoopPerimeterIsCircumference ==
    LoopRendered
    => /\ Within(LoopPerimeter(last.in.shape, panes["loop-results"].dimensions),
                 panes["loop-results"].circumference, LoopPrintTolerance)
       /\ last.in.shape = "rectangular"
          => Within(panes["loop-results"].dimensions.longSide,
                    Mul(Z(2), panes["loop-results"].dimensions.shortSide),
                    LoopPrintTolerance)

\* the same for the circular and the square loop
RoundLoopPerimeterIsCircumference ==
    (LoopRendered /\ last.in.shape # "rectangular")
    => Within(LoopPerimeter(last.in.shape, panes["loop-results"].dimensions),
              panes["loop-results"].circumference, LoopPrintTolerance)

----------------------------------------------------------------------------
(* calculateTransmissionLine                                               *)

\* electricalLength(frequency, physicalLength, velocityFactor), degrees
electricalLength(frequency, physicalLength, velocityFactor) ==
    Mul(Div(physicalLength, frequencyToWavelength(frequency, "Hz", velocityFactor)), Z(360))

\* x % y for x >= 0 and y > 0
Remainder(x, y) == Sub(x, Mul(y, Z(Floor(Div(x, y)))))

LineTolerance == R(5, 100)

\* Math.abs(electricalLengthWavelengths % 0.5) < tolerance
NearHalfMultiple(wavelengths) ==
    Lt(MathAbs(Remainder(wavelengths, R(1, 2))), LineTolerance)

\* specialCase: the first test that passes, or no label
LineSpecialCase(wavelengths) ==
    IF Lt(MathAbs(Sub(wavelengths, R(25, 100))), LineTolerance)
    THEN "Quarter-wave transformer"
    ELSE IF Lt(MathAbs(Sub(wavelengths, R(5, 10))), LineTolerance)
    THEN "Half-wave (impedance repeater)"
    ELSE IF Lt(MathAbs(Sub(wavelengths, R(75, 100))), LineTolerance)
    THEN "Three-quarter wave"
    ELSE IF NearHalfMultiple(wavelengths) THEN "Multiple of half-wavelength"
    ELSE ""

\* the loss of the whole line: dB per 100 m at 1 GHz scaled by sqrt(f / GHz)
LineTotalLoss(loss, freqHz, lengthM) ==
    IF Gt(loss, Z(0))
    THEN Mul(Mul(Div(loss, Z(100)), MathSqrt(Div(freqHz, Canon(1, 1, 9)))), lengthM)
    ELSE Z(0)

\* the rendered result
LineResult(in, freqHz, lengthM, wavelengthTL, wavelengths) ==
    Return([kind |-> "result",
            wavelengths |-> formatNumber(wavelengths, 4),
            wavelengthTL |-> formatNumber(wavelengthTL, 3),
            quarterWave |-> formatNumber(Div(wavelengthTL, Z(4)), 3),
            halfWave |-> formatNumber(Div(wavelengthTL, Z(2)), 3),
            degrees |-> formatNumber(electricalLength(freqHz, lengthM, in.velocityFactor), 2),
            totalLoss |-> formatNumber(LineTotalLoss(in.loss, freqHz, lengthM), 2),
            specialCase |-> LineSpecialCase(wavelengths)])

LineWithWavelength(in, freqHz, lengthM, wavelengthTL) ==
    LineResult(in, freqHz, lengthM, wavelengthTL, Div(lengthM, wavelengthTL))

LineWithLength(in, freqHz, lengthM) ==
    IF lengthM.threw THEN lengthM
    ELSE LineWithWavelength(in, freqHz, lengthM.value,
                            frequencyToWavelength(freqHz, "Hz", in.velocityFactor))

\* the try block of calculateTransmissionLine
LineCompute(in) ==
    LineWithLength(in, Mul(in.frequency, FREQ_UNITS[in.freqUnit]),
                   convertUnits(in.length, in.lengthUnit, "m", LENGTH_UNITS))

MaxLineLengthSteps == 40

\* a line at 299.792458 MHz, where the free-space wavelength is 1 m
LineBase ==
    [frequency |-> R(299792458, 1000000), freqUnit |-> "MHz", velocityFactor |-> Z(1),
     length |-> Z(1), loss |-> Z(0), lengthUnit |-> "m"]

\* lengths in steps of 4 cm; the fields after parseFloat, `|| 0.66` and `|| 0`
LineValidInputs ==
    {[LineBase EXCEPT !.length = R(4 * k, 100),
                      !.velocityFactor = OrDefault(velocityFactor, R(66, 100)),
                      !.loss = OrDefault(loss, Z(0))] :
        k \in 1 .. MaxLineLengthSteps, velocityFactor \in {NaN, Z(1)}, loss \in {NaN, Z(10)}}

LineInputs ==
    LineValidInputs
    \cup {[LineBase EXCEPT !.frequency = NaN], [LineBase EXCEPT !.length = NaN],
          [LineBase EXCEPT !.length = Z(0)], [LineBase EXCEPT !.velocityFactor = Z(2)]}

LineTry == Tabulate([in \in LineInputs |-> LineCompute(in)])

calculateTransmissionLine ==
    \E in \in LineInputs :
        IF ~validateInput1(in.frequency)
        THEN Rejects("calculateTransmissionLine", in, "tl-freq")
        ELSE IF ~validateInput1(in.length)
             THEN Rejects("calculateTransmissionLine", in, "tl-length")
        ELSE IF ~validateInput(in.velocityFactor, R(1, 10), Z(1))
             THEN Rejects("calculateTransmissionLine", in, "tl-vf")
        ELSE Renders("calculateTransmissionLine", in, {"tl-freq", "tl-length", "tl-vf"},
                     "tl-results", LineTry[in], "rendered")

NextLine == calculateTransmissionLine

SpecLine == Init /\ [][NextLine]_vars

\* the electrical length of the entered line, in wavelengths
EnteredWavelengths(in) ==
    Div(in.length, Div(Mul(Z(SPEED_OF_LIGHT), in.velocityFactor),
                       Mul(in.frequency, Z(1000000))))

MaxHalfWaves == 8

WithinLineTolerance(wavelengths, target) ==
    Lt(MathAbs(Sub(wavelengths, target)), LineTolerance)

\* the label by the rule: 0.25, 0.5, 0.75 in that order, then k * 0.5 for
\* k >= 2 on either side, else none
LabelByRule(wavelengths) ==
    IF WithinLineTolerance(wavelengths, R(25, 100)) THEN "Quarter-wave transformer"
    ELSE IF WithinLineTolerance(wavelengths, R(5, 10)) THEN "Half-wave (impedance repeater)"
    ELSE IF WithinLineTolerance(wavelengths, R(75, 100)) THEN "Three-quarter wave"
    ELSE IF \E k \in 2 .. MaxHalfWaves : WithinLineTolerance(wavelengths, R(k, 2))
    THEN "Multiple of half-wavelength"
    ELSE ""

LineRendered == last.calc = "calculateTransmissionLine" /\ last.outcome = "rendered"

\* C28: a rendered line is labelled 'Quarter-wave transformer', 'Half-wave
\* (impedance repeater)' or 'Three-quarter wave' exactly when its electrical
\* length is within the tolerance of 0.25, 0.5 or 0.75 wavelengths (in that
\* order), 'Multiple of half-wavelength' exactly when it is within the
\* tolerance, on either side, of k * 0.5 for an integer k >= 2, and gets no
\* label otherwise, lengths much shorter than a quarter wave included.
C28_LineLabelledByElectricalLength ==
    LineRendered
    => panes["tl-results"].specialCase = LabelByRule(EnteredWavelengths(last.in))

\* the three named lengths are labelled as the rule says
NamedLengthsLabelled ==
    (LineRendered /\ LabelByRule(EnteredWavelengths(last.in))
                        \notin {"", "Multiple of half-wavelength"})
    => panes["tl-results"].specialCase = LabelByRule(EnteredWavelengths(last.in))

----------------------------------------------------------------------------
(* The reactances of the L-network                                         *)

\* the input with source and load resistance exchanged
MatchingSwapped(in) == [in EXCEPT !.rs = in.rl, !.rl = OrDefault(in.rs, Z(50))]

\* the pane shows R_high / Q and Q * R_low, and their product is rs * rl up
\* to the rounding of the arithmetic
ReactancesByRule(pane, rs, rl, q) ==
    /\ pane.xp = formatNumber(Div(MathMax(rs, rl), q), 1)
    /\ pane.xs = formatNumber(Mul(q, MathMin(rs, rl)), 1)
    /\ CloseTo(Mul(Div(MathMax(rs, rl), q), Mul(q, MathMin(rs, rl))), Mul(rs, rl))

\* the result for the exchanged resistances shows the same reactances
SameReactancesSwapped(pane, in) ==
    (MatchingSwapped(in) \in MatchingInputs /\ ~MatchingTry[MatchingSwapped(in)].threw)
    => /\ MatchingTry[MatchingSwapped(in)].value.xp = pane.xp
       /\ MatchingTry[MatchingSwapped(in)].value.xs = pane.xs

ReactancesFor(pane, in, rs) ==
    /\ ReactancesByRule(pane, rs, in.rl, QInUse(rs, in.rl, in.targetQ))
    /\ SameReactancesSwapped(pane, in)

----------------------------------------------------------------------------
(* Field errors that outlive their cause                                   *)

\* the value calculateRLC read from a field in the invocation just made
RlcFieldValue(in, field) ==
    CASE field = "rlc-resistance" -> in.resistance
      [] field = "rlc-inductance" -> in.inductance
      [] field = "rlc-capacitance" -> in.capacitance

RlcFields == {"rlc-resistance", "rlc-inductance", "rlc-capacitance"}

\* C26: after every invocation of calculateRLC a field carries an error
\* marker only if the value it held in that invocation failed validation: a
\* field whose value has become valid keeps no marker of an earlier
\* invocation.
C26_NoStaleFieldErrors ==
    last.calc = "calculateRLC"
    => \A field \in errors \cap RlcFields : ~validateInput1(RlcFieldValue(last.in, field))

\* the fields are all unmarked after an invocation that renders
NoMarkerAfterRendering ==
    (last.calc = "calculateRLC" /\ last.outcome # "rejected") => errors \cap RlcFields = {}

----------------------------------------------------------------------------
(* The chart: createFrequencyPlot, showChart, hideChart, exportChart.      *)
(* A Chart instance is a number, the n-th one created; charts.live holds   *)
(* the instances created and not destroyed.                               *)

MaxCharts == 6

ChartCanvasIds == {"chart-canvas", "no-such-canvas"}

PlotTypes == {"vswr", "radiation", "reactance", "pathloss"}

\* the plot types passed to showChart, one of them unknown to its switch
ShownPlotTypes == PlotTypes \cup {"smith"}

\* `if (currentChart) currentChart.destroy()`
DestroyCurrentKeepingIt(c) == c

DestroyCurrent(c) ==
    IF c.currentChart # NoChart THEN [c EXCEPT !.live = @ \ {c.currentChart}] ELSE c

\* `currentChart = new Chart(ctx, defaultOptions)`
NewChart(c) ==
    [c EXCEPT !.created = @ + 1, !.live = @ \cup {c.created + 1},
              !.currentChart = c.created + 1]

\* createFrequencyPlot's effect on the charts; the plotting helpers all end
\* in it with 'chart-canvas'
CreateFrequencyPlotOn(c, canvasId) ==
    IF ~(canvasId = "chart-canvas" /\ c.hasCanvas) THEN c
    ELSE NewChart(DestroyCurrent(c))

\* showChart up to its switch: canvas displayed, close button and overlay
\* added when absent, overlay displayed
ChartDisplayed(c) ==
    [c EXCEPT !.canvasShown = TRUE, !.closeBtn = TRUE, !.overlay = "shown"]

ShowChartOn(c, plotType) ==
    IF ~c.hasCanvas THEN c
    ELSE IF plotType \in PlotTypes
         THEN CreateFrequencyPlotOn(ChartDisplayed(c), "chart-canvas")
    ELSE ChartDisplayed(c)

HideChartOn(c) ==
    LET hidden == [c EXCEPT !.canvasShown = FALSE,
                            !.overlay = IF @ = "absent" THEN @ ELSE "hidden",
                            !.closeBtn = FALSE]
    IN  [DestroyCurrent(hidden) EXCEPT !.currentChart = NoChart]

ChartCall(fn, in, outcome) ==
    /\ last' = [calc |-> fn, outcome |-> outcome, marked |-> {}, in |-> in]
    /\ UNCHANGED <<errors, panes, localStorage, page, timers>>

createFrequencyPlot ==
    /\ charts.created < MaxCharts
    /\ \E canvasId \in ChartCanvasIds :
        /\ charts' = CreateFrequencyPlotOn(charts, canvasId)
        /\ ChartCall("createFrequencyPlot", [canvasId |-> canvasId],
                     IF charts'.created = charts.created THEN "null" ELSE "chart")

showChart ==
    /\ charts.created < MaxCharts
    /\ \E plotType \in ShownPlotTypes :
        /\ charts' = ShowChartOn(charts, plotType)
        /\ ChartCall("showChart", [plotType |-> plotType],
                     IF charts'.created = charts.created THEN "none" ELSE "chart")

hideChart ==
    /\ charts' = HideChartOn(charts)
    /\ ChartCall("hideChart", [shown |-> charts.canvasShown], "hidden")

\* exportChart alerts without a chart and downloads the canvas otherwise
exportChart ==
    /\ charts' = charts
    /\ ChartCall("exportChart", [shown |-> charts.canvasShown],
                 IF charts.currentChart = NoChart THEN "alert" ELSE "download")

InitCharts ==
    /\ InitCalculators
    /\ localStorage = EmptyStorage
    /\ page = FreshPage("loading", NoSearch, EmptyStorage)
    /\ timers = NoTimers
    /\ charts \in {NoCharts(hasCanvas) : hasCanvas \in BOOLEAN}

NextCharts == createFrequencyPlot \/ showChart \/ hideChart \/ exportChart

SpecCharts == InitCharts /\ [][NextCharts]_vars

\* C30: after any sequence of showChart, createFrequencyPlot, hideChart and
\* exportChart calls at most one Chart instance is created and not
\* destroyed, currentChart is that instance when there is one, and after
\* hideChart currentChart is null and no instance is left.
C30_AtMostOneLiveChart ==
    /\ Cardinality(charts.live) <= 1
    /\ charts.live # {} => charts.live = {charts.currentChart}
    /\ last.calc = "hideChart" => (charts.currentChart = NoChart /\ charts.live = {})

\* a chart was replaced by a later one, which is the only one left
C30_Witness_SecondChartReplacesFirst ==
    /\ last.calc \in {"showChart", "createFrequencyPlot"}
    /\ last.outcome = "chart"
    /\ charts.created >= 2
    /\ charts.live = {charts.created}
    /\ charts.currentChart = charts.created

----------------------------------------------------------------------------
(* The session: page load (initializeUI, initializeApp, loadFromURL,       *)
(* loadSharedConfiguration), showTab, toggleTheme, the keyboard shortcuts, *)
(* updateURL and shareConfiguration.  The functions are operators on the   *)
(* pair s = [page, storage].                                              *)

Tabs == {"antenna", "rf-circuits", "transmission", "propagation", "conversions"}

Themes == {"light", "dark"}

\* document.readyState when main.js runs.  While 'loading' both scripts
\* register a DOMContentLoaded listener; when the scripts are deferred
\* ('interactive') main.js initialises at once and the listener of ui.js
\* runs afterwards; in a complete document only main.js initialises.
ReadyStates == {"loading", "interactive", "complete"}

\* the initialisations of a page load, in the orders the page can run them:
\* listeners run in the order of registration, i.e. of the script tags
StartupOrders(readyState) ==
    IF readyState = "loading"
    THEN {<<"initializeUI", "main">>, <<"main", "initializeUI">>}
    ELSE IF readyState = "interactive" THEN {<<"main", "initializeUI">>}
    ELSE {<<"main">>}

showTabOn(s, tabName) ==
    [page |-> [s.page EXCEPT !.activeTab = IF tabName \in Tabs THEN tabName ELSE ""],
     storage |-> [s.storage EXCEPT !["freqradio-current-tab"] = tabName]]

\* document.body.className is 'dark-theme' for 'dark' and '' otherwise
applyThemeOn(p, theme) == [p EXCEPT !.bodyTheme = IF theme = "dark" THEN "dark" ELSE "light"]

OtherTheme(theme) == IF theme = "light" THEN "dark" ELSE "light"

toggleThemeOn(s) ==
    [page |-> applyThemeOn([s.page EXCEPT !.currentTheme = OtherTheme(@)],
                           OtherTheme(s.page.currentTheme)),
     storage |-> [s.storage EXCEPT !["freqradio-theme"] = OtherTheme(s.page.currentTheme)]]

SavedThemeLoaded(s) ==
    IF s.storage["freqradio-theme"] # NoItem
    THEN [s EXCEPT !.page = applyThemeOn([@ EXCEPT !.currentTheme = s.storage["freqradio-theme"]],
                                         s.storage["freqradio-theme"])]
    ELSE s

\* setupEventListeners with setupAutoCalculation: one more click listener
\* on the buttons, one more debounced input listener on each number field
setupEventListenersOn(s) ==
    [s EXCEPT !.page.clickListeners = @ + 1, !.page.inputListeners = @ + 1]

setupKeyboardNavigationOn(s) == [s EXCEPT !.page.keydownListeners = @ + 1]

initializeUIOn(s) ==
    setupKeyboardNavigationOn(showTabOn(setupEventListenersOn(SavedThemeLoaded(s)),
                                        "antenna"))

SavedTabShown(s) ==
    IF s.storage["freqradio-current-tab"] # NoItem
    THEN showTabOn(s, s.storage["freqradio-current-tab"])
    ELSE s

initializeAppOn(s) ==
    IF s.page.app.initialized THEN s
    ELSE [SavedTabShown(initializeUIOn(s)) EXCEPT !.page.app.initialized = TRUE]

UrlTabLoaded(s) ==
    IF s.page.search.tab # NoItem
    THEN showTabOn([s EXCEPT !.page.app.currentTab = s.page.search.tab], s.page.search.tab)
    ELSE s

UrlThemeLoaded(s) ==
    IF s.page.search.theme \in Themes
    THEN [s EXCEPT !.page = applyThemeOn([@ EXCEPT !.currentTheme = s.page.search.theme],
                                         s.page.search.theme)]
    ELSE s

loadFromURLOn(s) == UrlThemeLoaded(UrlTabLoaded(s))

ConfigThemeLoaded(s) ==
    [s EXCEPT !.page = applyThemeOn([@ EXCEPT !.currentTheme = s.page.search.config.theme],
                                    s.page.search.config.theme)]

loadSharedConfigurationOn(s) ==
    IF s.page.search.config = NoConfig THEN s
    ELSE ConfigThemeLoaded(showTabOn(s, s.page.search.config.tab))

\* what main.js runs when the document is ready
MainOn(s) == loadSharedConfigurationOn(loadFromURLOn(initializeAppOn(s)))

RECURSIVE RunStartup(_, _)
RunStartup(s, order) ==
    IF order = <<>> THEN s
    ELSE RunStartup(IF Head(order) = "main" THEN MainOn(s) ELSE initializeUIOn(s),
                    Tail(order))

RECURSIVE Times(_, _, _)
\* n listeners of the same event, each toggling the theme or showing a tab
Times(n, s, tabName) ==
    IF n = 0 THEN s
    ELSE Times(n - 1, IF tabName = NoItem THEN toggleThemeOn(s) ELSE showTabOn(s, tabName),
               tabName)

Session == [page |-> page, storage |-> localStorage]

SessionStep(fn, in, after) ==
    /\ page' = after.page
    /\ localStorage' = after.storage
    /\ last' = [calc |-> fn, outcome |-> "done", marked |-> {}, in |-> in]
    /\ UNCHANGED <<errors, panes, timers, charts>>

\* the document becomes ready
pageLoads ==
    /\ ~page.started
    /\ \E order \in StartupOrders(page.readyState) :
        SessionStep("pageLoads", [order |-> order],
                    [RunStartup(Session, order) EXCEPT !.page.started = TRUE])

navButtonClicked ==
    /\ page.started
    /\ \E tabName \in Tabs :
        SessionStep("showTab", [tabName |-> tabName, from |-> page.activeTab],
                    Times(page.clickListeners, Session, tabName))

themeToggleClicked ==
    /\ page.started
    /\ SessionStep("toggleTheme", [theme |-> page.currentTheme],
                   Times(page.clickListeners, Session, NoItem))

\* Ctrl+T, handled by every keydown listener of setupKeyboardNavigation
keydownCtrlT ==
    /\ page.started
    /\ SessionStep("keydownCtrlT", [theme |-> page.currentTheme],
                   Times(page.keydownListeners, Session, NoItem))

updateURL ==
    /\ page.started
    /\ SessionStep("updateURL", [tab |-> page.activeTab, theme |-> page.currentTheme],
                   [Session EXCEPT !.page.search.tab = page.app.currentTab,
                                   !.page.search.theme = page.app.theme])

shareConfiguration ==
    /\ page.started
    /\ SessionStep("shareConfiguration", [tab |-> page.activeTab, theme |-> page.currentTheme],
                   [Session EXCEPT !.page.shared =
                        [tab |-> page.app.currentTab, theme |-> page.app.theme]])

\* the page is opened again, at the plain address, at the address written
\* by updateURL or at the shared address
SearchesToOpen ==
    {NoSearch, [page.search EXCEPT !.config = NoConfig],
     [tab |-> NoItem, theme |-> NoItem, config |-> page.shared]}

pageOpened ==
    /\ page.started
    /\ \E readyState \in ReadyStates, search \in SearchesToOpen :
        SessionStep("pageOpened", [readyState |-> readyState],
                    [page |-> FreshPage(readyState, search, localStorage),
                     storage |-> localStorage])

\* what earlier sessions can have left in localStorage
SavedStorages ==
    {[key \in StorageKeys |-> IF key = "freqradio-theme" THEN theme ELSE tabName] :
        theme \in Themes \cup {NoItem}, tabName \in Tabs \cup {NoItem}}

InitSession ==
    /\ InitCalculators
    /\ localStorage \in SavedStorages
    /\ page \in {FreshPage(readyState, NoSearch, localStorage) : readyState \in ReadyStates}
    /\ timers = NoTimers
    /\ charts = NoCharts(TRUE)

NextSession ==
    \/ pageLoads
    \/ navButtonClicked
    \/ themeToggleClicked
    \/ keydownCtrlT
    \/ updateURL
    \/ shareConfiguration
    \/ pageOpened

SpecSession == InitSession /\ [][NextSession]_vars

SavedTab == page.saved["freqradio-current-tab"]

\* C22: when an earlier session left tab T under 'freqradio-current-tab' and
\* the page is opened without URL parameters, T is the active tab after the
\* initialisation and the stored value is still T.
C22_SavedTabRestored ==
    (last.calc = "pageLoads" /\ page.search = NoSearch /\ SavedTab # NoItem)
        => (page.activeTab = SavedTab /\ localStorage["freqradio-current-tab"] = SavedTab)

\* what the initialisation does establish without URL parameters: the first
\* tab is active and stored, whatever was saved
FirstTabAfterStartup ==
    (last.calc = "pageLoads" /\ page.search = NoSearch)
        => (page.activeTab = "antenna" /\ localStorage["freqradio-current-tab"] = "antenna")

\* C23: on a page whose scripts loaded while the document was loading, a
\* Ctrl+T key press turns a light theme dark and a dark theme light, and the
\* stored 'freqradio-theme' is the new theme.
C23_CtrlTTogglesOnce ==
    (last.calc = "keydownCtrlT" /\ page.readyState = "loading")
        => /\ page.currentTheme = OtherTheme(last.in.theme)
           /\ page.bodyTheme = page.currentTheme
           /\ localStorage["freqradio-theme"] = page.currentTheme

\* the same in a document that was complete when the scripts ran, where
\* only main.js initialises
CtrlTTogglesOnceWhenComplete ==
    (last.calc = "keydownCtrlT" /\ page.readyState = "complete")
        => /\ page.currentTheme = OtherTheme(last.in.theme)
           /\ page.bodyTheme = page.currentTheme
           /\ localStorage["freqradio-theme"] = page.currentTheme

\* C25: the configuration of shareConfiguration and the URL of updateURL
\* carry the tab shown and the theme applied.
C25_SharingCarriesTabAndTheme ==
    /\ last.calc = "shareConfiguration"
        => (page.shared.tab = page.activeTab /\ page.shared.theme = page.bodyTheme)
    /\ last.calc = "updateURL"
        => (page.search.tab = page.activeTab /\ page.search.theme = page.bodyTheme)

\* what they do carry: the fields of `app`, which showTab and toggleTheme
\* leave alone
SharingCarriesTheAppObject ==
    /\ last.calc = "shareConfiguration"
        => (page.shared.tab = page.app.currentTab /\ page.shared.theme = "light")
    /\ last.calc = "updateURL"
        => (page.search.tab = page.app.currentTab /\ page.search.theme = "light")

----------------------------------------------------------------------------
(* Auto-calculation: setupAutoCalculation puts debounce(calculator, 1000)  *)
(* on every number field.  Time is a clock in ms that advances to the next *)
(* pending timeout or by TickMs, whichever is earlier.                     *)

AutoCalculationWait == 1000

TickMs == 250

MaxClock == 2500

Min(a, b) == IF a < b THEN a ELSE b

\* the times at which a timeout is pending
PendingTimeouts ==
    UNION {{timers.due[field][i] : i \in DOMAIN timers.due[field]} : field \in TimedFields}
        \ {NoTimeout}

\* debounce's returned function, run by each input listener of the field:
\* clearTimeout(timeout); timeout = setTimeout(later, wait)
Debounced(t, field, listeners) ==
    [t EXCEPT !.due[field] = [i \in 1 .. listeners |-> t.clock + AutoCalculationWait],
              !.lastInput[field] = t.clock,
              !.invoked[field] = 0]

\* `later` of listener i: the timeout is spent and func runs
Later(t, field, i) ==
    [t EXCEPT !.due[field][i] = NoTimeout,
              !.invoked[field] = @ + 1,
              !.delay[field] = t.clock - t.lastInput[field]]

\* what the fields hold when a timeout fires
TimedLoopContents ==
    {in \in LoopInputs : in.frequency \in {NaN, Z(7)} /\ in.loopType = "small"
                         /\ in.shape = "circular"}

TimedYagiContents == {in \in YagiInputs : in.elements = Z(5) /\ in.boomLength = NaN}

\* getCalculatorForInput(field)()
AutoCalculates(field) ==
    IF field = "loop-freq" THEN \E in \in TimedLoopContents : calculateLoopOn(in)
    ELSE \E in \in TimedYagiContents : calculateYagiOn(in)

\* an input event on a number field
inputEvent ==
    /\ page.started
    /\ \E field \in TimedFields :
        /\ timers' = Debounced(timers, field, page.inputListeners)
        /\ last' = [calc |-> "input", outcome |-> "scheduled", marked |-> {},
                    in |-> [field |-> field]]
        /\ UNCHANGED <<errors, panes, localStorage, page, charts>>

\* a timeout of a debounced listener is due
timeoutFires ==
    \E field \in TimedFields :
        \E i \in DOMAIN timers.due[field] :
            /\ timers.due[field][i] = timers.clock
            /\ timers' = Later(timers, field, i)
            /\ AutoCalculates(field)
            /\ UNCHANGED <<localStorage, page, charts>>

\* time passes, up to the next pending timeout
timePasses ==
    /\ timers.clock < MaxClock
    /\ timers.clock \notin PendingTimeouts
    /\ \E next \in {timers.clock + TickMs} \cup PendingTimeouts :
        /\ next <= MaxClock
        /\ \A other \in {timers.clock + TickMs} \cup PendingTimeouts : next <= other
        /\ timers' = [timers EXCEPT !.clock = next]
    /\ UNCHANGED <<errors, panes, last, localStorage, page, charts>>

InitDebounce ==
    /\ InitCalculators
    /\ localStorage = EmptyStorage
    /\ page \in {FreshPage(readyState, NoSearch, EmptyStorage) : readyState \in ReadyStates}
    /\ timers = NoTimers
    /\ charts = NoCharts(TRUE)

NextDebounce == pageLoads \/ inputEvent \/ timeoutFires \/ timePasses

SpecDebounce == InitDebounce /\ [][NextDebounce]_vars

\* the field's calculator ran at most once since the field's last input
\* event, every run came 1000 ms after the input event before it, and once
\* more than 1000 ms have passed since the last event it has run once
DebouncedOnce(field) ==
    /\ timers.invoked[field] <= 1
    /\ timers.delay[field] \in {NoTimeout, AutoCalculationWait}
    /\ (timers.lastInput[field] # NoTimeout
        /\ timers.clock > timers.lastInput[field] + AutoCalculationWait)
            => timers.invoked[field] = 1

\* C24: for a burst of input events on a mapped number field the calculator
\* is not invoked while the burst continues and is invoked exactly once,
\* 1000 ms after the last event; input events on other fields do not cancel
\* the pending calculation.
C24_AutoCalculationDebounced == \A field \in TimedFields : DebouncedOnce(field)

\* the same in a document that was complete when the scripts ran, where
\* each field has one debounced listener
DebouncedWhenComplete ==
    page.readyState = "complete" => \A field \in TimedFields : DebouncedOnce(field)

\* with the listeners of any page load: no run before 1000 ms after the
\* last event, and the runs are as many as the listeners
DebouncedOncePerListener ==
    \A field \in TimedFields :
        /\ timers.invoked[field] <= page.inputListeners
        /\ timers.delay[field] \in {NoTimeout, AutoCalculationWait}
        /\ (timers.lastInput[field] # NoTimeout
            /\ timers.clock > timers.lastInput[field] + AutoCalculationWait)
                => timers.invoked[field] = page.inputListeners

============================================================================
